---- MODULE Spec2Model ----
(***************************************************************************)
(* Person tracking and alert throttling of the camera manager             *)
(* (src/camera_manager/person_tracker.py): the tracked-person store, the  *)
(* greedy association of detections to persons, and the camera / person / *)
(* global alert suppression layers.                                       *)
(*                                                                         *)
(* Time is the wall clock in whole seconds.  One call of update or        *)
(* filter_alerts is one step and reads one clock value.  Real numbers are *)
(* exact fractions [n, d] with d > 0.                                     *)
(***************************************************************************)
EXTENDS Integers, Sequences, FiniteSets, TLC

VARIABLES
  clock,                  \* time.time()
  GLOBAL_SUPPRESSION,     \* module-level table, shared by every tracker
  people,                 \* people[tr]: PersonTracker.people, in insertion order
  camera_alert_history,   \* camera_alert_history[tr]: camera id -> history
  person_map,             \* person_map[tr]: the mapping the last update returned
  nextId,                 \* source of fresh person ids (uuid4)
  last,                   \* the last call: [op, tr, alert, detections, ret]
  allowed_log,            \* history: the alerts filter_alerts let through
  steps,                  \* number of steps taken
  configs,                \* the CameraConfig objects, by object number
  camera_configs,         \* camera id -> CameraConfig object
  camera_processes,       \* camera id -> camera_process task
  stop_events,            \* camera id -> asyncio.Event
  events,                 \* the asyncio.Event objects: is_set(), by object number
  tasks,                  \* the camera_process tasks, by task number
  handlers,               \* the request handlers suspended at their await
  camera_trackers,        \* camera id -> configuration of its PersonTracker
  started,                \* startup_event has run
  running,                \* the task that holds the event loop between two calls
  filter_call             \* process_frame's last filter_alerts call

vars == <<clock, GLOBAL_SUPPRESSION, people, camera_alert_history, person_map,
          nextId, last, allowed_log, steps,
          configs, camera_configs, camera_processes, stop_events, events, tasks,
          handlers, camera_trackers, started, running, filter_call>>

\* The state of the camera manager
manager_vars == <<configs, camera_configs, camera_processes, stop_events, events,
                  tasks, handlers, camera_trackers, started, running, filter_call>>

\* The state of the trackers
tracker_vars == <<clock, GLOBAL_SUPPRESSION, people, camera_alert_history, person_map,
                  nextId, allowed_log>>

----------------------------------------------------------------------------
(* Bounds of the model *)

MaxSteps == 5

\* Seconds the clock may advance by between two calls.
TickSteps == {1200, 3600}

\* The clock at start: 07:00:00 of the second day, so that "never" (0) is
\* further back than the longest interval the tracker can compute.
StartClock == 31 * 3600

Trackers == {"cam1", "cam2"}

----------------------------------------------------------------------------
(* Program constants *)

max_distance_threshold == 200
MinIouNum == 1
MinIouDen == 10
use_spatial == TRUE
person_memory == 3600
alert_interval == 1200
max_alerts_per_interval == 2
camera_cooldown_period == 3600
HandsUpMinInterval == 1200
WeaponMinInterval == 600
HistoryCap == 10
BusinessOpen == 8
BusinessClose == 18
MovementThreshold == 10

PersonAlertTypes == {"Hands_Up", "Weapon", "Face_Covered", "Suspicious"}

NoAlert == <<"No_Alert">>

DefaultBBox == <<0, 0, 10, 10>>

----------------------------------------------------------------------------
(* Exact arithmetic *)

Min(a, b) == IF a <= b THEN a ELSE b
Max(a, b) == IF a >= b THEN a ELSE b

RECURSIVE GCD(_, _)
GCD(a, b) == IF b = 0 THEN a ELSE GCD(b, a % b)

Frac(n, d) == LET g == GCD(IF n < 0 THEN -n ELSE n, d)
              IN  IF g = 0 THEN [n |-> 0, d |-> 1] ELSE [n |-> n \div g, d |-> d \div g]
FZero == [n |-> 0, d |-> 1]
FAdd(a, b) == Frac(a.n * b.d + b.n * a.d, a.d * b.d)
FLess(a, b) == a.n * b.d < b.n * a.d
FLeq(a, b) == a.n * b.d <= b.n * a.d

\* The square root, exact for a perfect square and rounded down to a whole
\* number otherwise.  The boxes of the model have centres at whole distances
\* from each other, except for the default box [0, 0, 10, 10] and the box
\* [12, 11, 52, 101]; a distance to one of those never decides a comparison
\* (it is the only non-negative entry of its column of the similarity matrix,
\* or it is divided by a time difference of at least TickSteps seconds).
Sqrt(n) == CHOOSE r \in 0..1000 : r * r <= n /\ n < (r + 1) * (r + 1)

\* -inf of the similarity matrix: below every other entry.
NegInf == [n |-> -2, d |-> 1]
MinusOne == [n |-> -1, d |-> 1]

----------------------------------------------------------------------------
(* Geometry *)

_calculate_iou(bbox1, bbox2) ==
  LET x_left == Max(bbox1[1], bbox2[1])
      y_top == Max(bbox1[2], bbox2[2])
      x_right == Min(bbox1[3], bbox2[3])
      y_bottom == Min(bbox1[4], bbox2[4])
      intersection == (x_right - x_left) * (y_bottom - y_top)
      area1 == (bbox1[3] - bbox1[1]) * (bbox1[4] - bbox1[2])
      area2 == (bbox2[3] - bbox2[1]) * (bbox2[4] - bbox2[2])
      union == area1 + area2 - intersection
  IN  IF x_right < x_left \/ y_bottom < y_top THEN FZero
      ELSE IF area1 <= 0 \/ area2 <= 0 THEN FZero
      ELSE IF union > 0 THEN Frac(intersection, union) ELSE FZero

\* iou > self.min_iou_threshold
AboveMinIou(iou) == iou.n * MinIouDen > MinIouNum * iou.d

CenterX(bbox) == (bbox[1] + bbox[3]) \div 2
CenterY(bbox) == (bbox[2] + bbox[4]) \div 2

CenterDistSq(bbox1, bbox2) ==
  (CenterX(bbox1) - CenterX(bbox2)) * (CenterX(bbox1) - CenterX(bbox2))
  + (CenterY(bbox1) - CenterY(bbox2)) * (CenterY(bbox1) - CenterY(bbox2))

_calculate_center_distance(bbox1, bbox2) == Sqrt(CenterDistSq(bbox1, bbox2))

----------------------------------------------------------------------------
(* Person *)

Hour(now) == (now \div 3600) % 24
BusinessHours(now) == BusinessOpen <= Hour(now) /\ Hour(now) <= BusinessClose

NewPerson(id, bbox, confidence, now) ==
  [id |-> id, bbox |-> bbox, confidence |-> confidence,
   first_seen |-> now, last_seen |-> now,
   last_alert_time |-> [t \in PersonAlertTypes |-> 0],
   alert_count |-> [t \in PersonAlertTypes |-> 0],
   frames_tracked |-> 1,
   detection_history |-> << >>,
   movement_score |-> FZero]

\* distance / time_diff between samples i-1 and i, 0 when time_diff <= 0
Speed(h, i) ==
  LET dx == h[i][1] - h[i-1][1]
      dy == h[i][2] - h[i-1][2]
      time_diff == h[i][3] - h[i-1][3]
  IN  IF time_diff > 0 THEN Frac(Sqrt(dx * dx + dy * dy), time_diff) ELSE FZero

RECURSIVE TotalSpeed(_, _)
TotalSpeed(h, i) == IF i < 2 THEN FZero ELSE FAdd(TotalSpeed(h, i - 1), Speed(h, i))

_calculate_movement_score(h) ==
  IF Len(h) < 2 THEN FZero
  ELSE LET total == TotalSpeed(h, Len(h))
       IN  Frac(total.n, total.d * Len(h))

\* A Person.update that, at the cap, drops the sample it has just appended
PersonUpdateDropsNewest(p, bbox, confidence, now) ==
  LET appended == Append(p.detection_history, <<CenterX(bbox), CenterY(bbox), now>>)
      h == IF Len(appended) > HistoryCap THEN SubSeq(appended, 1, HistoryCap)
           ELSE appended
  IN  [p EXCEPT !.bbox = bbox, !.confidence = confidence, !.last_seen = now,
                !.frames_tracked = @ + 1,
                !.detection_history = h,
                !.movement_score = _calculate_movement_score(h)]

\* A Person.update that keeps the bbox of the earlier match
PersonUpdateKeepsBBox(p, bbox, confidence, now) ==
  LET appended == Append(p.detection_history, <<CenterX(bbox), CenterY(bbox), now>>)
      h == IF Len(appended) > HistoryCap THEN Tail(appended) ELSE appended
  IN  [p EXCEPT !.confidence = confidence, !.last_seen = now,
                !.frames_tracked = @ + 1,
                !.detection_history = h,
                !.movement_score = _calculate_movement_score(h)]

PersonUpdate(p, bbox, confidence, now) ==
  LET appended == Append(p.detection_history, <<CenterX(bbox), CenterY(bbox), now>>)
      h == IF Len(appended) > HistoryCap THEN Tail(appended) ELSE appended
  IN  [p EXCEPT !.bbox = bbox, !.confidence = confidence, !.last_seen = now,
                !.frames_tracked = @ + 1,
                !.detection_history = h,
                !.movement_score = _calculate_movement_score(h)]

\* A dynamic interval whose repeat factor is not capped at 5
DynamicInterval16Uncapped(p, alert_type, min_interval, now) ==
  min_interval
  * (IF p.alert_count[alert_type] > 0 THEN 4 + p.alert_count[alert_type] ELSE 4)
  * (IF FLess([n |-> MovementThreshold, d |-> 1], p.movement_score) THEN 3 ELSE 2)
  * (IF BusinessHours(now) THEN 3 ELSE 2)

\* dynamic_interval * 16, as a whole number
DynamicInterval16(p, alert_type, min_interval, now) ==
  min_interval
  * (IF p.alert_count[alert_type] > 0 THEN Min(20, 4 + p.alert_count[alert_type]) ELSE 4)
  * (IF FLess([n |-> MovementThreshold, d |-> 1], p.movement_score) THEN 3 ELSE 2)
  * (IF BusinessHours(now) THEN 3 ELSE 2)

GlobalSuppressed(glob, alert_type, now) ==
  /\ alert_type \in DOMAIN glob
  /\ now - glob[alert_type].last_alert_time < glob[alert_type].min_interval

\* A can_alert that compares with the base interval only
can_alert_base_interval(p, alert_type, min_interval, glob, now) ==
  IF GlobalSuppressed(glob, alert_type, now) THEN FALSE
  ELSE now - p.last_alert_time[alert_type] >= min_interval

can_alert(p, alert_type, min_interval, glob, now) ==
  IF GlobalSuppressed(glob, alert_type, now) THEN FALSE
  ELSE (now - p.last_alert_time[alert_type]) * 16
         >= DynamicInterval16(p, alert_type, min_interval, now)

\* A record_alert that leaves the global table alone
record_alert_person_only(p, alert_type, glob, now) ==
  [person |-> [p EXCEPT !.last_alert_time[alert_type] = now,
                        !.alert_count[alert_type] = @ + 1],
   glob |-> glob]

\* record_alert: the person and the global table after it
record_alert(p, alert_type, glob, now) ==
  [person |-> [p EXCEPT !.last_alert_time[alert_type] = now,
                        !.alert_count[alert_type] = @ + 1],
   glob |-> IF alert_type \in DOMAIN glob
            THEN [glob EXCEPT ![alert_type].last_alert_time = now,
                              ![alert_type].count = @ + 1]
            ELSE glob]

RECURSIVE RecordAll(_, _, _, _, _)
RecordAll(p, alert_types, k, glob, now) ==
  IF k > Len(alert_types) THEN [person |-> p, glob |-> glob]
  ELSE LET r == record_alert(p, alert_types[k], glob, now)
       IN  RecordAll(r.person, alert_types, k + 1, r.glob, now)

----------------------------------------------------------------------------
(* PersonTracker.update *)

\* class_name.lower()
Lower(name) == IF name = "Person" THEN "person" ELSE name

\* A class test that takes every detection for a person
IsAnyDetection(det) == TRUE

IsPersonDetection(det) == Lower(det.class_name) = "person"

\* detection.get("bbox", [0, 0, 10, 10])
DetectionBBox(det) == IF det.has_bbox THEN det.bbox ELSE DefaultBBox

\* An eviction test that also drops a person exactly person_memory old
StaleAtLimit(p, now) == (now - p.last_seen) >= person_memory

Stale(p, now) == (now - p.last_seen) > person_memory

EvictStale(ps, now) == SelectSeq(ps, LAMBDA p : ~Stale(p, now))

\* One new person per detection of class person among the indices idxs, in order.
RECURSIVE CreatePeople(_, _, _, _, _, _)
CreatePeople(ps, detections, idxs, map, nid, now) ==
  IF idxs = << >> THEN [people |-> ps, map |-> map, nextId |-> nid]
  ELSE LET i == Head(idxs)
           det == detections[i]
       IN  IF IsPersonDetection(det)
           THEN CreatePeople(Append(ps, NewPerson(nid, DetectionBBox(det), det.confidence, now)),
                             detections, Tail(idxs), Append(map, <<i, nid>>), nid + 1, now)
           ELSE CreatePeople(ps, detections, Tail(idxs), map, nid, now)

\* A similarity that has no forbidden distance
SimilarityNoDistanceLimit(p, det) ==
  IF ~IsPersonDetection(det) THEN NegInf
  ELSE IF use_spatial
       THEN LET bbox == DetectionBBox(det)
                iou == _calculate_iou(p.bbox, bbox)
            IN  IF AboveMinIou(iou) THEN iou
                ELSE LET center_distance == _calculate_center_distance(p.bbox, bbox)
                     IN  Frac(4 * Max(0, max_distance_threshold - center_distance),
                              5 * max_distance_threshold)
       ELSE [n |-> 1, d |-> 2]

Similarity(p, det) ==
  IF ~IsPersonDetection(det) THEN NegInf
  ELSE IF use_spatial
       THEN LET bbox == DetectionBBox(det)
                iou == _calculate_iou(p.bbox, bbox)
            IN  IF CenterDistSq(p.bbox, bbox) > max_distance_threshold * max_distance_threshold
                THEN MinusOne
                ELSE IF AboveMinIou(iou) THEN iou
                ELSE LET center_distance == _calculate_center_distance(p.bbox, bbox)
                     IN  Frac(4 * Max(0, max_distance_threshold - center_distance),
                              5 * max_distance_threshold)
       ELSE [n |-> 1, d |-> 2]

SimilarityMatrix(ps, detections) ==
  [i \in 1..Len(ps), j \in 1..Len(detections) |-> Similarity(ps[i], detections[j])]

\* A choice of the first pair, in row-major order, that is not below 0
ArgFirstNotNegative(S, n, m) ==
  IF \A c \in (1..n) \X (1..m) : FLess(S[c[1], c[2]], FZero) THEN <<1, 1>>
  ELSE CHOOSE c \in (1..n) \X (1..m) :
         /\ ~FLess(S[c[1], c[2]], FZero)
         /\ \A c2 \in (1..n) \X (1..m) :
              (c2[1] < c[1] \/ (c2[1] = c[1] /\ c2[2] < c[2]))
                => FLess(S[c2[1], c2[2]], FZero)

\* np.argmax of the flattened matrix: the first maximum in row-major order
ArgMax(S, n, m) ==
  CHOOSE c \in (1..n) \X (1..m) :
    \A c2 \in (1..n) \X (1..m) :
      /\ FLeq(S[c2[1], c2[2]], S[c[1], c[2]])
      /\ (c2[1] < c[1] \/ (c2[1] = c[1] /\ c2[2] < c[2]))
           => FLess(S[c2[1], c2[2]], S[c[1], c[2]])

\* A removal that leaves the matched detection among the unmatched ones
RemoveIdxKeepsAll(idxs, j) == idxs

RemoveIdx(idxs, j) == SelectSeq(idxs, LAMBDA x : x # j)

\* A masking that removes the matched person's row only
MaskRowOnly(S, n, m, i, j) ==
  [a \in 1..n, b \in 1..m |-> IF a = i THEN MinusOne ELSE S[a, b]]

\* A masking that removes the matched detection's column only
MaskColumnOnly(S, n, m, i, j) ==
  [a \in 1..n, b \in 1..m |-> IF b = j THEN MinusOne ELSE S[a, b]]

\* similarity_matrix[i, :] = -1; similarity_matrix[:, j] = -1
MaskPair(S, n, m, i, j) ==
  [a \in 1..n, b \in 1..m |-> IF a = i \/ b = j THEN MinusOne ELSE S[a, b]]

\* The greedy matching loop: take the best pair, update the person, mask its
\* row and column with -1, until the maximum is below 0.
RECURSIVE GreedyMatch(_, _, _, _, _, _)
GreedyMatch(S, ps, detections, map, unmatched, now) ==
  LET n == Len(ps)
      m == Len(detections)
      c == ArgMax(S, n, m)
      i == c[1]
      j == c[2]
  IN  IF FLess(S[i, j], FZero)
      THEN [people |-> ps, map |-> map, unmatched |-> unmatched]
      ELSE GreedyMatch(
             MaskPair(S, n, m, i, j),
             [ps EXCEPT ![i] = PersonUpdate(ps[i], DetectionBBox(detections[j]),
                                            detections[j].confidence, now)],
             detections,
             Append(map, <<j, ps[i].id>>),
             RemoveIdx(unmatched, j),
             now)

Indices(detections) == [i \in 1..Len(detections) |-> i]

\* An update that also refreshes last_seen of the persons it did not match
update_touching_unmatched(ps0, detections, nid, now) ==
  LET ps == EvictStale(ps0, now)
      touched == [i \in 1..Len(ps) |-> [ps[i] EXCEPT !.last_seen = now]]
  IN  IF ps = << >>
      THEN LET r == CreatePeople(ps, detections, Indices(detections), << >>, nid, now)
           IN  [people |-> r.people, map |-> r.map, nextId |-> r.nextId, raised |-> FALSE]
      ELSE IF detections = << >>
      THEN [people |-> ps, map |-> << >>, nextId |-> nid, raised |-> TRUE]
      ELSE LET g == GreedyMatch(SimilarityMatrix(ps, detections), touched, detections,
                                << >>, Indices(detections), now)
               r == CreatePeople(g.people, detections, g.unmatched, g.map, nid, now)
           IN  [people |-> r.people, map |-> r.map, nextId |-> r.nextId, raised |-> FALSE]

\* update(detections): [people, map, nextId, raised]
update(ps0, detections, nid, now) ==
  LET ps == EvictStale(ps0, now)
  IN  IF ps = << >>
      THEN LET r == CreatePeople(ps, detections, Indices(detections), << >>, nid, now)
           IN  [people |-> r.people, map |-> r.map, nextId |-> r.nextId, raised |-> FALSE]
      ELSE IF detections = << >>
      THEN \* np.argmax of an empty matrix raises ValueError
           [people |-> ps, map |-> << >>, nextId |-> nid, raised |-> TRUE]
      ELSE LET g == GreedyMatch(SimilarityMatrix(ps, detections), ps, detections,
                                << >>, Indices(detections), now)
               r == CreatePeople(g.people, detections, g.unmatched, g.map, nid, now)
           IN  [people |-> r.people, map |-> r.map, nextId |-> r.nextId, raised |-> FALSE]

----------------------------------------------------------------------------
(* PersonTracker.check_camera_alert_limit and filter_alerts *)

NoHistory == [alerts |-> << >>, cooldown_until |-> 0]

\* A camera limit that forgets the cooldown check
check_camera_alert_limit_no_cooldown(hist, camera_id, now) ==
  LET h0 == IF camera_id \in DOMAIN hist THEN hist ELSE hist @@ (camera_id :> NoHistory)
      camera_history == h0[camera_id]
      pruned == SelectSeq(camera_history.alerts, LAMBDA t : (now - t) < alert_interval)
  IN  IF Len(pruned) >= max_alerts_per_interval
      THEN [ok |-> FALSE,
            hist |-> [h0 EXCEPT ![camera_id] =
                        [alerts |-> pruned,
                         cooldown_until |-> now + camera_cooldown_period]]]
      ELSE [ok |-> TRUE, hist |-> [h0 EXCEPT ![camera_id].alerts = pruned]]

\* A camera limit that prunes the timestamps before it checks the cooldown
check_camera_alert_limit_prune_first(hist, camera_id, now) ==
  LET h0 == IF camera_id \in DOMAIN hist THEN hist ELSE hist @@ (camera_id :> NoHistory)
      camera_history == h0[camera_id]
      pruned == SelectSeq(camera_history.alerts, LAMBDA t : (now - t) < alert_interval)
  IN  IF now < camera_history.cooldown_until
      THEN [ok |-> FALSE, hist |-> [h0 EXCEPT ![camera_id].alerts = pruned]]
      ELSE IF Len(pruned) >= max_alerts_per_interval
      THEN [ok |-> FALSE,
            hist |-> [h0 EXCEPT ![camera_id] =
                        [alerts |-> pruned,
                         cooldown_until |-> now + camera_cooldown_period]]]
      ELSE [ok |-> TRUE, hist |-> [h0 EXCEPT ![camera_id].alerts = pruned]]

\* [ok, hist]: the answer and the tracker's camera_alert_history after the call
check_camera_alert_limit(hist, camera_id, now) ==
  LET h0 == IF camera_id \in DOMAIN hist THEN hist ELSE hist @@ (camera_id :> NoHistory)
      camera_history == h0[camera_id]
      pruned == SelectSeq(camera_history.alerts, LAMBDA t : (now - t) < alert_interval)
  IN  IF now < camera_history.cooldown_until
      THEN [ok |-> FALSE, hist |-> h0]
      ELSE IF Len(pruned) >= max_alerts_per_interval
      THEN [ok |-> FALSE,
            hist |-> [h0 EXCEPT ![camera_id] =
                        [alerts |-> pruned,
                         cooldown_until |-> now + camera_cooldown_period]]]
      ELSE [ok |-> TRUE, hist |-> [h0 EXCEPT ![camera_id].alerts = pruned]]

\* self.camera_alert_history[camera_id]["alerts"].append(time.time())
AppendCameraAlert(hist, camera_id, now) ==
  IF camera_id \in DOMAIN hist
  THEN [hist EXCEPT ![camera_id].alerts = Append(@, now)]
  ELSE hist

PersonIds(ps) == {ps[i].id : i \in 1..Len(ps)}
IndexOfId(ps, id) == CHOOSE i \in 1..Len(ps) : ps[i].id = id

None == 0

\* The first entry of person_map, in insertion order, whose person is tracked
DirectMatch(ps, pm) ==
  LET hits == SelectSeq(pm, LAMBDA e : e[2] \in PersonIds(ps))
  IN  IF hits = << >> THEN None ELSE Head(hits)[2]

\* The tracked person of highest IoU above min_iou_threshold with bbox, the
\* first one among equals
RECURSIVE IouMatch(_, _, _, _, _)
IouMatch(ps, bbox, k, best_match_id, best_match_iou) ==
  IF k > Len(ps) THEN best_match_id
  ELSE LET iou == _calculate_iou(ps[k].bbox, bbox)
       IN  IF FLess(best_match_iou, iou) /\ AboveMinIou(iou)
           THEN IouMatch(ps, bbox, k + 1, ps[k].id, iou)
           ELSE IouMatch(ps, bbox, k + 1, best_match_id, best_match_iou)

ResolvePose(ps, pm, bbox) ==
  IF DirectMatch(ps, pm) # None THEN DirectMatch(ps, pm)
  ELSE IouMatch(ps, bbox, 1, None, FZero)

PoseThreshold(alert_types, alert_type) ==
  IF alert_type = "Hands_Up" THEN alert_interval * 3 ELSE alert_interval

InSeq(x, sq) == \E k \in 1..Len(sq) : sq[k] = x

Denied(ps, hist, glob, nid) ==
  [ret |-> NoAlert, people |-> ps, hist |-> hist, glob |-> glob, nextId |-> nid]

Allowed(alert, ps, hist, glob, nid) ==
  [ret |-> alert.type_of_alert, people |-> ps, hist |-> hist, glob |-> glob,
   nextId |-> nid]

\* A poses path that lets the alert through when any one type is eligible
FilterPoseAnyType(alert, ps, pm, hist, glob, nid, now) ==
  LET alert_types == alert.type_of_alert
      camera_id == alert.SourceID
      poses_bbox == alert.Image_bb[1]
      best_match_id == ResolvePose(ps, pm, poses_bbox)
  IN  IF best_match_id # None
      THEN LET i == IndexOfId(ps, best_match_id)
               should_alert ==
                 \E k \in 1..Len(alert_types) :
                   can_alert(ps[i], alert_types[k],
                             PoseThreshold(alert_types, alert_types[k]), glob, now)
               r == RecordAll(ps[i], alert_types, 1, glob, now)
           IN  IF should_alert
               THEN Allowed(alert, [ps EXCEPT ![i] = r.person],
                            AppendCameraAlert(hist, camera_id, now), r.glob, nid)
               ELSE Denied(ps, hist, glob, nid)
      ELSE IF \E k \in 1..Len(alert_types) : GlobalSuppressed(glob, alert_types[k], now)
      THEN Denied(ps, hist, glob, nid)
      ELSE LET r == RecordAll(NewPerson(nid, poses_bbox, 100, now), alert_types, 1, glob, now)
           IN  Allowed(alert, Append(ps, r.person),
                       AppendCameraAlert(hist, camera_id, now), r.glob, nid + 1)

\* Detection_type "poses" with a non-empty Image_bb
FilterPose(alert, ps, pm, hist, glob, nid, now) ==
  LET alert_types == alert.type_of_alert
      camera_id == alert.SourceID
      poses_bbox == alert.Image_bb[1]
      best_match_id == ResolvePose(ps, pm, poses_bbox)
  IN  IF best_match_id # None
      THEN LET i == IndexOfId(ps, best_match_id)
               should_alert ==
                 \A k \in 1..Len(alert_types) :
                   can_alert(ps[i], alert_types[k],
                             PoseThreshold(alert_types, alert_types[k]), glob, now)
               r == RecordAll(ps[i], alert_types, 1, glob, now)
           IN  IF should_alert
               THEN Allowed(alert, [ps EXCEPT ![i] = r.person],
                            AppendCameraAlert(hist, camera_id, now), r.glob, nid)
               ELSE Denied(ps, hist, glob, nid)
      ELSE IF \E k \in 1..Len(alert_types) : GlobalSuppressed(glob, alert_types[k], now)
      THEN Denied(ps, hist, glob, nid)
      ELSE LET r == RecordAll(NewPerson(nid, poses_bbox, 100, now), alert_types, 1, glob, now)
           IN  Allowed(alert, Append(ps, r.person),
                       AppendCameraAlert(hist, camera_id, now), r.glob, nid + 1)

\* Detection_type "objects": the loop over Image_bb, box k onwards
RECURSIVE ObjectsLoop(_, _, _, _, _, _, _)
ObjectsLoop(alert, k, ps, hist, glob, should_suppress, now) ==
  IF k > Len(alert.Image_bb)
  THEN [people |-> ps, hist |-> hist, glob |-> glob, should_suppress |-> should_suppress]
  ELSE LET alert_types == alert.type_of_alert
           best_match_id == IouMatch(ps, alert.Image_bb[k], 1, None, FZero)
       IN  IF best_match_id = None
           THEN ObjectsLoop(alert, k + 1, ps, hist, glob, should_suppress, now)
           ELSE LET i == IndexOfId(ps, best_match_id)
                    should_alert ==
                      \A t \in 1..Len(alert_types) :
                        can_alert(ps[i], alert_types[t], alert_interval, glob, now)
                    r == RecordAll(ps[i], alert_types, 1, glob, now)
                IN  IF should_alert
                    THEN ObjectsLoop(alert, k + 1, [ps EXCEPT ![i] = r.person],
                                     AppendCameraAlert(hist, alert.SourceID, now),
                                     r.glob, should_suppress, now)
                    ELSE ObjectsLoop(alert, k + 1, ps, hist, glob, TRUE, now)

\* Python values: a dict is a record of its keys; any other value v is the
\* record [py |-> v]
PyNone == [py |-> "None"]
PyEmptyDict == [py |-> "{}"]
PyEmptyList == [py |-> "[]"]
PyString == [py |-> "alert"]
Falsy == {PyNone, PyEmptyDict, PyEmptyList}
IsDict(v) == "py" \notin DOMAIN v

\* dict.get(key, default)
Get(d, key, default) == IF key \in DOMAIN d THEN d[key] ELSE default

\* An early return that lets a No_Alert response into the filters
PassThroughExceptNoAlert(alert) ==
  \/ alert \in Falsy
  \/ ~IsDict(alert)
  \/ "type_of_alert" \notin DOMAIN alert

\* The early returns of filter_alerts
PassThrough(alert) ==
  \/ alert \in Falsy
  \/ ~IsDict(alert)
  \/ "type_of_alert" \notin DOMAIN alert
  \/ alert.type_of_alert = NoAlert

\* The value filter_alerts returns after the filters: the response with its
\* type_of_alert as the filters o left it
Returned(alert, o) ==
  [ret |-> o.ret, response |-> [alert EXCEPT !.type_of_alert = o.ret],
   people |-> o.people, hist |-> o.hist, glob |-> o.glob, nextId |-> o.nextId]

\* filter_alerts(alert_response, person_map):
\* [ret, response, people, hist, glob, nextId], where response is the value
\* returned and ret its type_of_alert.  random_suppress is the outcome of
\* np.random.random() < 0.7.
filter_alerts(alert, ps, pm, hist, glob, nid, now, random_suppress) ==
  IF PassThrough(alert)
  THEN [ret |-> Get(alert, "type_of_alert", << >>), response |-> alert,
        people |-> ps, hist |-> hist, glob |-> glob, nextId |-> nid]
  ELSE
  LET camera_id == Get(alert, "SourceID", "unknown")
      Detection_type == Get(alert, "Detection_type", "None")
      Image_bb == Get(alert, "Image_bb", << >>)
      chk == check_camera_alert_limit(hist, camera_id, now)
      alert_types == alert.type_of_alert
  IN  Returned(alert,
      IF ~chk.ok THEN Denied(ps, chk.hist, glob, nid)
      ELSE IF InSeq("Hands_Up", alert_types) /\ BusinessHours(now) /\ random_suppress
      THEN Denied(ps, chk.hist, glob, nid)
      ELSE IF Detection_type = "poses" /\ Image_bb # << >>
      THEN FilterPose(alert, ps, pm, chk.hist, glob, nid, now)
      ELSE IF Detection_type = "objects"
              /\ ObjectsLoop(alert, 1, ps, chk.hist, glob, FALSE, now).should_suppress
      THEN LET l == ObjectsLoop(alert, 1, ps, chk.hist, glob, FALSE, now)
           IN  Denied(l.people, l.hist, l.glob, nid)
      ELSE IF Detection_type = "objects"
      THEN LET l == ObjectsLoop(alert, 1, ps, chk.hist, glob, FALSE, now)
           IN  Allowed(alert, l.people, AppendCameraAlert(l.hist, camera_id, now),
                       l.glob, nid)
      ELSE Allowed(alert, ps, AppendCameraAlert(chk.hist, camera_id, now), glob, nid))

----------------------------------------------------------------------------
(* Inputs *)

BoxA == <<10, 10, 50, 100>>
BoxA2 == <<16, 18, 56, 108>>
BoxC == <<100, 130, 140, 220>>
BoxB == <<310, 410, 350, 500>>

\* The box of the example in the specification: IoU with BoxA above 0.3
BoxA1 == <<12, 11, 52, 101>>

PersonAt(bbox) ==
  [class_name |-> "person", has_bbox |-> TRUE, bbox |-> bbox, confidence |-> 90]
\* A person detection under another spelling of the class name
PersonNamed(class_name, bbox) ==
  [class_name |-> class_name, has_bbox |-> TRUE, bbox |-> bbox, confidence |-> 90]
\* A person detection that has no "bbox" key
PersonNoBBox ==
  [class_name |-> "person", has_bbox |-> FALSE, bbox |-> << >>, confidence |-> 90]
CarAt(bbox) ==
  [class_name |-> "car", has_bbox |-> TRUE, bbox |-> bbox, confidence |-> 90]

\* Every detection list and alert the properties range over
DetectionLists ==
  { << >>, <<PersonAt(BoxA)>>, <<PersonAt(BoxA2)>>, <<PersonAt(BoxC)>>,
    <<PersonAt(BoxA), PersonAt(BoxB)>>,
    <<CarAt(BoxA)>> }

\* The detection lists the properties of update range over: two detections
\* near one person, detections in another order than the store, another
\* spelling of the class name, a detection without a bbox
TrackDetectionLists ==
  DetectionLists \cup
  { <<PersonAt(BoxA1)>>,
    <<PersonAt(BoxA2), PersonAt(BoxA)>>,
    <<PersonAt(BoxB), PersonAt(BoxA)>>,
    <<CarAt(BoxC), PersonNamed("Person", BoxA)>>,
    <<PersonNoBBox>>,
    <<PersonNoBBox, PersonAt(BoxB)>> }

AlertTypeLists == { <<"Hands_Up">>, <<"Weapon">>, <<"Face_Covered">>,
                    <<"Weapon", "Face_Covered">> }

DetectionTypes == {"poses", "objects", "unknown"}

ImageBBs == { << >>, <<BoxA>>, <<BoxB>>, <<BoxA, BoxB>> }

\* The alerts a tracker can be handed: SourceID is the tracker's own camera
Alerts(tr) ==
  [type_of_alert : AlertTypeLists, SourceID : {tr},
   Detection_type : DetectionTypes, Image_bb : ImageBBs]

Alert(tr, alert_types, detection_type, image_bb) ==
  [type_of_alert |-> alert_types, SourceID |-> tr,
   Detection_type |-> detection_type, Image_bb |-> image_bb]

\* The calls the state machine makes
StepDetectionLists == { <<PersonAt(BoxA), PersonAt(BoxB)>> }

StepAlerts(tr) ==
  { Alert(tr, <<"Hands_Up">>, "poses", <<BoxA>>),
    Alert(tr, <<"Weapon">>, "objects", <<BoxA, BoxB>>),
    Alert(tr, <<"Face_Covered">>, "objects", <<BoxA>>),
    Alert(tr, <<"Face_Covered">>, "poses", << >>) }

\* The calls of the two-camera runs
CrossTickSteps == {5, 1200}
CrossDetectionLists == { <<PersonAt(BoxA)>> }
CrossAlerts(tr) ==
  { Alert(tr, <<"Hands_Up">>, "poses", <<BoxA>>),
    Alert(tr, <<"Face_Covered">>, "objects", <<BoxA>>) }

\* A box whose centre is exactly max_distance_threshold from the centre of BoxA
BoxD == <<130, 170, 170, 260>>

\* The detection lists the properties of the matching range over: persons
\* beyond and exactly at the distance limit, other classes, two candidates
\* for one person, one candidate for two persons
MatchDetectionLists ==
  { <<PersonAt(BoxA)>>, <<PersonAt(BoxA1)>>, <<PersonAt(BoxB)>>, <<PersonAt(BoxD)>>,
    <<PersonAt(BoxA2), PersonAt(BoxA)>>,
    <<PersonAt(BoxB), PersonAt(BoxA)>>,
    <<PersonAt(BoxD), PersonAt(BoxA2)>>,
    <<CarAt(BoxA)>>,
    <<CarAt(BoxC), PersonNamed("Person", BoxA)>>,
    <<CarAt(BoxA), CarAt(BoxB)>> }

\* The calls of the runs that exercise the matching
MaxMatchSteps == 3
MatchStepDetectionLists ==
  { <<PersonAt(BoxA2), PersonAt(BoxA)>>,
    <<PersonAt(BoxD)>>,
    <<PersonAt(BoxB)>>,
    <<CarAt(BoxC), PersonNamed("Person", BoxA)>>,
    <<CarAt(BoxA), CarAt(BoxB)>> }
MatchAlerts(tr) == { Alert(tr, <<"Face_Covered">>, "poses", <<BoxB>>) }

\* The calls of the runs that exercise update
MaxTrackSteps == 3
TrackStepDetectionLists ==
  { <<PersonAt(BoxA), PersonAt(BoxB)>>,
    <<PersonAt(BoxA2), PersonAt(BoxA)>>,
    <<PersonNoBBox, PersonAt(BoxB)>>,
    <<PersonAt(BoxA1)>>,
    << >> }
TrackAlerts(tr) ==
  { Alert(tr, <<"Face_Covered">>, "poses", <<BoxB>>),
    Alert(tr, <<"Weapon", "Face_Covered">>, "poses", <<BoxB>>) }

\* np.random.random() < 0.7 is drawn only for Hands_Up in business hours
RandomOutcomes(alert, now) ==
  IF ~PassThrough(alert) /\ InSeq("Hands_Up", alert.type_of_alert) /\ BusinessHours(now)
  THEN BOOLEAN ELSE {FALSE}

----------------------------------------------------------------------------
(* The state machine *)

NoCall == [type_of_alert |-> << >>, SourceID |-> "none", Detection_type |-> "none",
           Image_bb |-> << >>]

\* CameraConfig(config_file) of a file that names no alert_interval
ConfigFallbackInterval == 60
LoadedConfig == [alert_interval |-> ConfigFallbackInterval, active |-> TRUE]

\* No filter_alerts call of process_frame yet
NoFilterCall == [camera |-> "none", alert_interval |-> 0, configured |-> 0]

Init ==
  /\ clock = StartClock
  /\ GLOBAL_SUPPRESSION =
       [t \in {"Hands_Up", "Weapon"} |->
          [last_alert_time |-> 0,
           min_interval |-> IF t = "Hands_Up" THEN HandsUpMinInterval
                            ELSE WeaponMinInterval,
           count |-> 0]]
  /\ people = [tr \in Trackers |-> << >>]
  /\ camera_alert_history = [tr \in Trackers |-> << >>]
  /\ person_map = [tr \in Trackers |-> << >>]
  /\ nextId = 1
  /\ last = [op |-> "init", tr |-> "none", alert |-> NoCall, detections |-> << >>,
             ret |-> << >>]
  /\ allowed_log = << >>
  /\ steps = 0
  /\ configs = <<LoadedConfig>>
  /\ camera_configs = ("cam1" :> 1)
  /\ camera_processes = << >>
  /\ stop_events = << >>
  /\ events = << >>
  /\ tasks = << >>
  /\ handlers = << >>
  /\ camera_trackers = << >>
  /\ started = FALSE
  /\ running = 0
  /\ filter_call = NoFilterCall

\* Time passes between two calls
Tick(d) ==
  /\ clock' = clock + d
  /\ last' = [op |-> "tick", tr |-> "none", alert |-> NoCall, detections |-> << >>,
              ret |-> << >>]
  /\ steps' = steps + 1
  /\ UNCHANGED <<GLOBAL_SUPPRESSION, people, camera_alert_history, person_map,
                 nextId, allowed_log>>

\* person_map = tracker.update(detections)
Update(tr, detections) ==
  /\ LET r == update(people[tr], detections, nextId, clock)
     IN  /\ people' = [people EXCEPT ![tr] = r.people]
         /\ person_map' = IF r.raised THEN person_map
                          ELSE [person_map EXCEPT ![tr] = r.map]
         /\ nextId' = r.nextId
         /\ last' = [op |-> "update", tr |-> tr, alert |-> NoCall,
                     detections |-> detections,
                     ret |-> IF r.raised THEN <<"raised">> ELSE <<"ok">>]
  /\ steps' = steps + 1
  /\ UNCHANGED <<clock, GLOBAL_SUPPRESSION, camera_alert_history, allowed_log>>

\* What filter_alerts(alert, person_map) does in the current state
Outcome(tr, alert, random_suppress) ==
  filter_alerts(alert, people[tr], person_map[tr], camera_alert_history[tr],
                GLOBAL_SUPPRESSION, nextId, clock, random_suppress)

\* tracker.filter_alerts(alert, person_map)
FilterAlerts(tr, alert, random_suppress) ==
  /\ LET o == Outcome(tr, alert, random_suppress)
     IN  /\ people' = [people EXCEPT ![tr] = o.people]
         /\ camera_alert_history' = [camera_alert_history EXCEPT ![tr] = o.hist]
         /\ GLOBAL_SUPPRESSION' = o.glob
         /\ nextId' = o.nextId
         /\ last' = [op |-> "filter_alerts", tr |-> tr, alert |-> alert,
                     detections |-> << >>, ret |-> o.ret]
         /\ allowed_log' =
              IF o.ret = NoAlert \/ PassThrough(alert) THEN allowed_log
              ELSE Append(allowed_log, [tr |-> tr, time |-> clock, alert |-> alert])
  /\ steps' = steps + 1
  /\ UNCHANGED <<clock, person_map>>

\* One camera
Next ==
  /\ steps < MaxSteps
  /\ UNCHANGED manager_vars
  /\ \/ \E d \in TickSteps : Tick(d)
     \/ \E detections \in StepDetectionLists : Update("cam1", detections)
     \/ \E alert \in StepAlerts("cam1") :
          \E random_suppress \in RandomOutcomes(alert, clock) :
            FilterAlerts("cam1", alert, random_suppress)

Spec == Init /\ [][Next]_vars

\* Two cameras, each with its own tracker, sharing GLOBAL_SUPPRESSION
NextCross ==
  /\ steps < MaxSteps
  /\ UNCHANGED manager_vars
  /\ \/ \E d \in CrossTickSteps : Tick(d)
     \/ \E tr \in Trackers, detections \in CrossDetectionLists : Update(tr, detections)
     \/ \E tr \in Trackers : \E alert \in CrossAlerts(tr) :
          \E random_suppress \in RandomOutcomes(alert, clock) :
            FilterAlerts(tr, alert, random_suppress)

SpecCross == Init /\ [][NextCross]_vars

\* What update(detections) does in the current state
UpdateOutcome(tr, detections) == update(people[tr], detections, nextId, clock)

\* One camera, with the detection lists that exercise the matching of update
NextTrack ==
  /\ steps < MaxTrackSteps
  /\ UNCHANGED manager_vars
  /\ \/ \E d \in TickSteps : Tick(d)
     \/ \E detections \in TrackStepDetectionLists : Update("cam1", detections)
     \/ \E alert \in TrackAlerts("cam1") :
          \E random_suppress \in RandomOutcomes(alert, clock) :
            FilterAlerts("cam1", alert, random_suppress)

SpecTrack == Init /\ [][NextTrack]_vars

\* One camera, with the detection lists that exercise the similarity matrix
NextMatch ==
  /\ steps < MaxMatchSteps
  /\ UNCHANGED manager_vars
  /\ \/ \E d \in TickSteps : Tick(d)
     \/ \E detections \in MatchStepDetectionLists : Update("cam1", detections)
     \/ \E alert \in MatchAlerts("cam1") :
          \E random_suppress \in RandomOutcomes(alert, clock) :
            FilterAlerts("cam1", alert, random_suppress)

SpecMatch == Init /\ [][NextMatch]_vars

\* One camera whose frames show one person at BoxA or at BoxA2, for long enough
\* to fill detection_history; time passes and alerts arrive only while enough
\* steps remain to fill the history afterwards
MaxHistorySteps == 14
HistoryTickSteps == {1200}
HistoryDetectionLists == {<<PersonAt(BoxA)>>, <<PersonAt(BoxA2)>>}
HistoryAlerts(tr) == {Alert(tr, <<"Face_Covered">>, "poses", <<BoxA>>)}

NextHistory ==
  /\ steps < MaxHistorySteps
  /\ UNCHANGED manager_vars
  /\ \/ /\ steps + HistoryCap + 2 < MaxHistorySteps
        /\ \E d \in HistoryTickSteps : Tick(d)
     \/ /\ steps + HistoryCap + 2 < MaxHistorySteps
        /\ \E alert \in HistoryAlerts("cam1") :
             \E random_suppress \in RandomOutcomes(alert, clock) :
               FilterAlerts("cam1", alert, random_suppress)
     \/ \E detections \in HistoryDetectionLists : Update("cam1", detections)

SpecHistory == Init /\ [][NextHistory]_vars

\* The values filter_alerts returns at once: falsy values, values that are not
\* dicts, dicts without type_of_alert, and No_Alert responses
NonAlerts(tr) ==
  Falsy \cup {PyString}
    \cup {[SourceID |-> tr, Detection_type |-> "poses", Image_bb |-> <<BoxA>>]}
    \cup {[type_of_alert |-> NoAlert]}
    \cup {Alert(tr, NoAlert, dt, bb) : dt \in {"poses", "objects"},
                                       bb \in {<< >>, <<BoxA>>}}

\* One camera whose alert service mostly answers with no alert
MaxPassSteps == 3
PassAlerts(tr) == NonAlerts(tr) \cup {Alert(tr, <<"Weapon">>, "objects", <<BoxA>>)}

NextPass ==
  /\ steps < MaxPassSteps
  /\ UNCHANGED manager_vars
  /\ \/ \E d \in TickSteps : Tick(d)
     \/ \E detections \in StepDetectionLists : Update("cam1", detections)
     \/ \E alert \in PassAlerts("cam1") :
          \E random_suppress \in RandomOutcomes(alert, clock) :
            FilterAlerts("cam1", alert, random_suppress)

SpecPass == Init /\ [][NextPass]_vars

----------------------------------------------------------------------------
(* The camera manager: request handlers and camera_process tasks on one     *)
(* asyncio event loop.  A coroutine runs until its next await; the runs     *)
(* take place within one second and every frame shows one person at BoxA,   *)
(* where the tracker's calls have the same outcome under every              *)
(* configuration the runs draw.                                             *)

MaxManagerSteps == 6
MaxTasks == 3
MaxHandlers == 2

\* The alert_interval values a request or a config file sets
ConfigIntervals == {ConfigFallbackInterval, alert_interval}

\* Python dicts: d[k] = v and del d[k]
Put(d, k, v) == (k :> v) @@ d
Del(d, k) == IF DOMAIN d \ {k} = {} THEN << >> ELSE [x \in DOMAIN d \ {k} |-> d[x]]

\* A sequence without its k-th element
Without(s, k) == SubSeq(s, 1, k - 1) \o SubSeq(s, k + 1, Len(s))

\* The dicts and objects of the manager, as one record
Manager ==
  [configs |-> configs, camera_configs |-> camera_configs,
   camera_processes |-> camera_processes, stop_events |-> stop_events,
   events |-> events, tasks |-> tasks, handlers |-> handlers]

SetManager(m) ==
  /\ configs' = m.configs
  /\ camera_configs' = m.camera_configs
  /\ camera_processes' = m.camera_processes
  /\ stop_events' = m.stop_events
  /\ events' = m.events
  /\ tasks' = m.tasks
  /\ handlers' = m.handlers

\* What the services answer for a frame: the alert of a pose, or the
\* detections and the alert of the object detector
NoResponse == [detection_type |-> "none", detections |-> << >>, alert_status |-> NoCall]
Responses(c) ==
  { [detection_type |-> "poses", detections |-> << >>,
     alert_status |-> Alert(c, <<"Face_Covered">>, "poses", <<BoxA>>)],
    [detection_type |-> "objects", detections |-> <<PersonAt(BoxA)>>,
     alert_status |-> Alert(c, <<"Weapon">>, "objects", <<BoxA>>)] }

\* synthetic_detections of a pose response
synthetic_detections(alert_status) ==
  [k \in 1..Len(alert_status.Image_bb) |-> PersonAt(alert_status.Image_bb[k])]

\* stop_event = asyncio.Event(); stop_events[c] = stop_event;
\* camera_processes[c] = asyncio.create_task(camera_process(c, config, stop_event))
StartProcess(m, c, config) ==
  [m EXCEPT !.events = Append(@, FALSE),
            !.stop_events = Put(@, c, Len(m.events) + 1),
            !.tasks = Append(@, [camera |-> c, config |-> config,
                                 stop_event |-> Len(m.events) + 1,
                                 pc |-> "loop", response |-> NoResponse]),
            !.camera_processes = Put(@, c, Len(m.tasks) + 1)]

\* camera_id in camera_processes and camera_id in stop_events
HasProcess(m, c) == c \in DOMAIN m.camera_processes /\ c \in DOMAIN m.stop_events

\* stop_events[c].set()
SetStop(m, c) == [m EXCEPT !.events[m.stop_events[c]] = TRUE]

\* await camera_processes[c]: a task that is done is awaited without a
\* switch, any other suspends the handler
TaskDone(m, t) == m.tasks[t].pc = "done"
Suspend(m, op, c, config) ==
  [m EXCEPT !.handlers = Append(@, [op |-> op, camera |-> c,
                                    task |-> m.camera_processes[c],
                                    config |-> config])]

\* startup_event: a task for every active camera, in the order of CameraIds
CameraIds == <<"cam1", "cam2">>
RECURSIVE StartAll(_, _)
StartAll(m, k) ==
  IF k > Len(CameraIds) THEN m
  ELSE LET c == CameraIds[k]
       IN  IF c \in DOMAIN m.camera_configs /\ m.configs[m.camera_configs[c]].active
           THEN StartAll(StartProcess(m, c, m.camera_configs[c]), k + 1)
           ELSE StartAll(m, k + 1)

\* PersonTracker(...) as startup_event and process_frame construct it:
\* alert_interval is not among the arguments
ConstructedTracker == [alert_interval |-> alert_interval]

\* add_camera for a known camera, after its await
add_camera_restart(m, c, config) == StartProcess(m, c, config)

\* add_camera up to its await or its end
add_camera(m, c, interval) ==
  IF c \in DOMAIN m.camera_configs
  THEN LET config == m.camera_configs[c]
           m1 == [m EXCEPT !.configs[config].alert_interval = interval]
       IN  IF HasProcess(m1, c)
           THEN LET m2 == SetStop(m1, c)
                IN  IF TaskDone(m2, m2.camera_processes[c])
                    THEN add_camera_restart(m2, c, config)
                    ELSE Suspend(m2, "add_camera", c, config)
           ELSE m1
  ELSE LET config == Len(m.configs) + 1
           m1 == [m EXCEPT !.configs = Append(@, LoadedConfig),
                           !.camera_configs = Put(@, c, config)]
       IN  StartProcess(m1, c, config)

\* del camera_processes[c]; del stop_events[c]: a KeyError ends the handler
DelProcess(m, c) ==
  IF c \notin DOMAIN m.camera_processes THEN [m |-> m, raised |-> TRUE]
  ELSE IF c \notin DOMAIN m.stop_events
  THEN [m |-> [m EXCEPT !.camera_processes = Del(@, c)], raised |-> TRUE]
  ELSE [m |-> [m EXCEPT !.camera_processes = Del(@, c), !.stop_events = Del(@, c)],
        raised |-> FALSE]

\* toggle_camera(active=False), after its await
toggle_camera_stopped(m, c) == DelProcess(m, c).m

\* toggle_camera up to its await or its end
toggle_camera(m, c, active) ==
  LET config == m.camera_configs[c]
      m1 == [m EXCEPT !.configs[config].active = active]
  IN  IF active
      THEN IF ~HasProcess(m1, c) THEN StartProcess(m1, c, config) ELSE m1
      ELSE IF HasProcess(m1, c)
      THEN LET m2 == SetStop(m1, c)
           IN  IF TaskDone(m2, m2.camera_processes[c])
               THEN toggle_camera_stopped(m2, c)
               ELSE Suspend(m2, "toggle_camera", c, config)
      ELSE m1

\* del camera_configs[c]
DelConfig(m, c) ==
  IF c \in DOMAIN m.camera_configs THEN [m EXCEPT !.camera_configs = Del(@, c)] ELSE m

\* delete_camera, after its await
delete_camera_stopped(m, c) ==
  LET d == DelProcess(m, c)
  IN  IF d.raised THEN d.m ELSE DelConfig(d.m, c)

\* delete_camera up to its await or its end
delete_camera(m, c) ==
  IF HasProcess(m, c)
  THEN LET m2 == SetStop(m, c)
       IN  IF TaskDone(m2, m2.camera_processes[c])
           THEN delete_camera_stopped(m2, c)
           ELSE Suspend(m2, "delete_camera", c, m.camera_configs[c])
  ELSE DelConfig(m, c)

\* A step of the manager that is no call of a tracker
Called(op, c) ==
  /\ last' = [op |-> op, tr |-> c, alert |-> NoCall, detections |-> << >>,
              ret |-> << >>]
  /\ steps' = steps + 1
  /\ UNCHANGED tracker_vars

\* The event loop is free and the manager is up
Idle == started /\ running = 0

\* Only so many tasks and suspended handlers
Bounded(m) == Len(m.tasks) <= MaxTasks /\ Len(m.handlers) <= MaxHandlers

\* @app.on_event("startup")
Startup ==
  /\ ~started
  /\ started' = TRUE
  /\ camera_trackers' =
       [c \in DOMAIN camera_configs |-> ConstructedTracker]
  /\ SetManager(StartAll(Manager, 1))
  /\ Called("startup_event", "none")
  /\ UNCHANGED <<running, filter_call>>

\* POST /camera
AddCamera(c, interval) ==
  /\ Idle
  /\ Bounded(add_camera(Manager, c, interval))
  /\ SetManager(add_camera(Manager, c, interval))
  /\ Called("add_camera", c)
  /\ UNCHANGED <<camera_trackers, started, running, filter_call>>

\* POST /camera/{camera_id}/toggle
ToggleCamera(c, active) ==
  /\ Idle
  /\ c \in DOMAIN camera_configs
  /\ Bounded(toggle_camera(Manager, c, active))
  /\ SetManager(toggle_camera(Manager, c, active))
  /\ Called("toggle_camera", c)
  /\ UNCHANGED <<camera_trackers, started, running, filter_call>>

\* DELETE /camera/{camera_id}
DeleteCamera(c) ==
  /\ Idle
  /\ c \in DOMAIN camera_configs
  /\ Bounded(delete_camera(Manager, c))
  /\ SetManager(delete_camera(Manager, c))
  /\ Called("delete_camera", c)
  /\ UNCHANGED <<camera_trackers, started, running, filter_call>>

\* The task a handler awaits is done: the handler goes on to its end
Resume(k) ==
  /\ Idle
  /\ TaskDone(Manager, handlers[k].task)
  /\ LET h == handlers[k]
         m == [Manager EXCEPT !.handlers = Without(@, k)]
         after == IF h.op = "add_camera" THEN add_camera_restart(m, h.camera, h.config)
                  ELSE IF h.op = "toggle_camera" THEN toggle_camera_stopped(m, h.camera)
                  ELSE delete_camera_stopped(m, h.camera)
     IN  /\ Bounded(after)
         /\ SetManager(after)
         /\ Called(h.op, h.camera)
  /\ UNCHANGED <<camera_trackers, started, running, filter_call>>

StopSet(t) == events[tasks[t].stop_event]

\* camera_process: while not stop_event.is_set() ends the loop
WorkerExit(t) ==
  /\ Idle
  /\ tasks[t].pc = "loop" /\ StopSet(t)
  /\ tasks' = [tasks EXCEPT ![t].pc = "done"]
  /\ Called("camera_process", tasks[t].camera)
  /\ UNCHANGED <<configs, camera_configs, camera_processes, stop_events, events,
                 handlers, camera_trackers, started, running, filter_call>>

\* camera_process: the video file has ended: stop_event.set(); break
WorkerEndOfVideo(t) ==
  /\ Idle
  /\ tasks[t].pc = "loop" /\ ~StopSet(t)
  /\ tasks' = [tasks EXCEPT ![t].pc = "done"]
  /\ events' = [events EXCEPT ![tasks[t].stop_event] = TRUE]
  /\ Called("camera_process", tasks[t].camera)
  /\ UNCHANGED <<configs, camera_configs, camera_processes, stop_events,
                 handlers, camera_trackers, started, running, filter_call>>

\* process_frame up to its first await: the tracker is constructed if the
\* camera has none, and configured from the task's config otherwise
WorkerFrame(t) ==
  /\ Idle
  /\ tasks[t].pc = "loop" /\ ~StopSet(t)
  /\ LET c == tasks[t].camera
     IN  /\ camera_trackers' =
              IF c \notin DOMAIN camera_trackers
              THEN Put(camera_trackers, c, ConstructedTracker)
              ELSE [camera_trackers EXCEPT
                      ![c].alert_interval = configs[tasks[t].config].alert_interval]
         /\ Called("process_frame", c)
  /\ tasks' = [tasks EXCEPT ![t].pc = "awaiting"]
  /\ UNCHANGED <<configs, camera_configs, camera_processes, stop_events, events,
                 handlers, started, running, filter_call>>

\* The detections process_frame hands to update
FrameDetections(response) ==
  IF response.detection_type = "poses"
  THEN synthetic_detections(response.alert_status)
  ELSE response.detections

\* A process_frame that gives up the event loop after update
WorkerUpdateYields(t, response) ==
  /\ Idle
  /\ tasks[t].pc = "awaiting"
  /\ Update(tasks[t].camera, FrameDetections(response))
  /\ tasks' = [tasks EXCEPT ![t].pc = IF last'.ret = <<"raised">> THEN "loop"
                                      ELSE "updated",
                            ![t].response = response]
  /\ running' = 0
  /\ UNCHANGED <<configs, camera_configs, camera_processes, stop_events, events,
                 handlers, camera_trackers, started, filter_call>>

\* process_frame, the services have answered:
\* person_map = camera_trackers[camera_id].update(detections); an exception
\* of update ends process_frame
WorkerUpdate(t, response) ==
  /\ Idle
  /\ tasks[t].pc = "awaiting"
  /\ Update(tasks[t].camera, FrameDetections(response))
  /\ tasks' = [tasks EXCEPT ![t].pc = IF last'.ret = <<"raised">> THEN "loop"
                                      ELSE "updated",
                            ![t].response = response]
  /\ running' = IF last'.ret = <<"raised">> THEN 0 ELSE t
  /\ UNCHANGED <<configs, camera_configs, camera_processes, stop_events, events,
                 handlers, camera_trackers, started, filter_call>>

\* process_frame, next statement:
\* filtered_alert = camera_trackers[camera_id].filter_alerts(original_alert, person_map)
WorkerFilter(t, random_suppress) ==
  /\ started /\ running \in {0, t}
  /\ tasks[t].pc = "updated"
  /\ FilterAlerts(tasks[t].camera, tasks[t].response.alert_status, random_suppress)
  /\ filter_call' = [camera |-> tasks[t].camera,
                     alert_interval |-> camera_trackers[tasks[t].camera].alert_interval,
                     configured |-> configs[tasks[t].config].alert_interval]
  /\ tasks' = [tasks EXCEPT ![t].pc = "loop", ![t].response = NoResponse]
  /\ running' = 0
  /\ UNCHANGED <<configs, camera_configs, camera_processes, stop_events, events,
                 handlers, camera_trackers, started>>

NextManager ==
  /\ steps < MaxManagerSteps
  /\ \/ Startup
     \/ \E c \in Trackers, interval \in ConfigIntervals : AddCamera(c, interval)
     \/ \E c \in Trackers, active \in BOOLEAN : ToggleCamera(c, active)
     \/ \E c \in Trackers : DeleteCamera(c)
     \/ \E k \in 1..Len(handlers) : Resume(k)
     \/ \E t \in 1..Len(tasks) : WorkerExit(t)
     \/ \E t \in 1..Len(tasks) : WorkerEndOfVideo(t)
     \/ \E t \in 1..Len(tasks) : WorkerFrame(t)
     \/ \E t \in 1..Len(tasks) : \E response \in Responses(tasks[t].camera) :
          WorkerUpdate(t, response)
     \/ \E t \in 1..Len(tasks) :
          \E random_suppress \in RandomOutcomes(tasks[t].response.alert_status, clock) :
            WorkerFilter(t, random_suppress)

SpecManager == Init /\ [][NextManager]_vars

----------------------------------------------------------------------------
(* Properties *)

FilterStep == last'.op = "filter_alerts"
DeniedStep == FilterStep /\ last'.ret = NoAlert
AllowedStep == FilterStep /\ last'.ret # NoAlert

\* Per person: what record_alert writes
AlertFields(ps) ==
  [i \in 1..Len(ps) |->
     [id |-> ps[i].id, last_alert_time |-> ps[i].last_alert_time,
      alert_count |-> ps[i].alert_count]]

\* A camera's alert-timestamp list in a tracker's history (empty when absent)
CameraAlerts(hist, camera_id) ==
  IF camera_id \in DOMAIN hist THEN hist[camera_id].alerts ELSE << >>
CooldownUntil(hist, camera_id) ==
  IF camera_id \in DOMAIN hist THEN hist[camera_id].cooldown_until ELSE 0

TypesOf(alert) == {alert.type_of_alert[k] : k \in 1..Len(alert.type_of_alert)}

\* C1: a filter_alerts call that returns No_Alert changes no person's
\* last_alert_time or alert_count, no camera's alert-timestamp list and no
\* GLOBAL_SUPPRESSION entry.
C1_IdempotentDenial ==
  [][DeniedStep =>
       /\ \A tr \in Trackers : AlertFields(people'[tr]) = AlertFields(people[tr])
       /\ \A tr \in Trackers, cam \in Trackers :
            CameraAlerts(camera_alert_history'[tr], cam)
              = CameraAlerts(camera_alert_history[tr], cam)
       /\ GLOBAL_SUPPRESSION' = GLOBAL_SUPPRESSION]_vars

\* C2: in every reachable state, every alert that filter_alerts would allow has
\* no type under active global suppression (now - last_alert_time >= min_interval
\* for each of its types that has a GLOBAL_SUPPRESSION entry).
C2_GlobalSuppressionOnEveryPath ==
  \A tr \in Trackers : \A alert \in Alerts(tr) :
    \A random_suppress \in RandomOutcomes(alert, clock) :
      Outcome(tr, alert, random_suppress).ret # NoAlert
        => \A T \in TypesOf(alert) \cap DOMAIN GLOBAL_SUPPRESSION :
             clock - GLOBAL_SUPPRESSION[T].last_alert_time
               >= GLOBAL_SUPPRESSION[T].min_interval

\* C4: after a filter_alerts call that allows an alert, every type of the alert
\* that has a GLOBAL_SUPPRESSION entry has last_alert_time = the time of the call
\* and a larger count.
C4_GlobalTableUpdatedOnAllow ==
  [][AllowedStep =>
       \A T \in TypesOf(last'.alert) \cap DOMAIN GLOBAL_SUPPRESSION :
         /\ GLOBAL_SUPPRESSION'[T].last_alert_time = clock
         /\ GLOBAL_SUPPRESSION'[T].count > GLOBAL_SUPPRESSION[T].count]_vars

IsPoseHandsUp(alert) ==
  /\ alert.Detection_type = "poses"
  /\ "Hands_Up" \in TypesOf(alert)
  /\ alert.Image_bb # << >>

NeverAlerted(p) == \A T \in PersonAlertTypes : p.last_alert_time[T] = 0

\* C3: while less than GLOBAL_SUPPRESSION["Hands_Up"].min_interval has passed
\* since one camera's tracker allowed a poses Hands_Up alert with a non-empty
\* Image_bb, every such alert handed to another camera's tracker is denied.
C3_CrossCameraSuppression ==
  \A k \in 1..Len(allowed_log) :
    LET e == allowed_log[k]
    IN  (IsPoseHandsUp(e.alert)
         /\ clock - e.time < GLOBAL_SUPPRESSION["Hands_Up"].min_interval)
          => \A tr \in Trackers \ {e.tr} : \A alert \in Alerts(tr) :
               IsPoseHandsUp(alert)
                 => \A random_suppress \in RandomOutcomes(alert, clock) :
                      Outcome(tr, alert, random_suppress).ret = NoAlert

\* C3 witness: outside business hours a tracker with no camera alerts and a
\* tracked person that never alerted has just denied a poses Hands_Up alert,
\* less than min_interval after another camera's tracker allowed one.
C3_Witness ==
  /\ last.op = "filter_alerts" /\ last.ret = NoAlert /\ IsPoseHandsUp(last.alert)
  /\ ~BusinessHours(clock)
  /\ CameraAlerts(camera_alert_history[last.tr], last.tr) = << >>
  /\ CooldownUntil(camera_alert_history[last.tr], last.tr) = 0
  /\ people[last.tr] # << >>
  /\ \A i \in 1..Len(people[last.tr]) : NeverAlerted(people[last.tr][i])
  /\ \E k \in 1..Len(allowed_log) :
       /\ allowed_log[k].tr # last.tr
       /\ IsPoseHandsUp(allowed_log[k].alert)
       /\ allowed_log[k].time < clock
       /\ clock - allowed_log[k].time < GLOBAL_SUPPRESSION["Hands_Up"].min_interval

\* The alert resolves to the i-th tracked person of tracker tr
ResolvesTo(tr, alert, i) ==
  \/ /\ alert.Detection_type = "poses" /\ alert.Image_bb # << >>
     /\ ResolvePose(people[tr], person_map[tr], alert.Image_bb[1]) = people[tr][i].id
  \/ /\ alert.Detection_type = "objects"
     /\ \E k \in 1..Len(alert.Image_bb) :
          IouMatch(people[tr], alert.Image_bb[k], 1, None, FZero) = people[tr][i].id

BaseInterval(alert, T) ==
  IF alert.Detection_type = "poses" THEN PoseThreshold(alert.type_of_alert, T)
  ELSE alert_interval

\* C5: no alert is allowed that contains a type T and resolves to a person P on
\* whom T was recorded at t0 while the time since t0 is smaller than P's dynamic
\* interval for T (base interval times repeat, movement and business-hours
\* factors), for poses and for objects alerts.
C5_CooldownMonotonicity ==
  \A tr \in Trackers : \A i \in 1..Len(people[tr]) :
    \A T \in {t \in PersonAlertTypes : people[tr][i].last_alert_time[t] > 0} :
      \A alert \in {a \in Alerts(tr) : T \in TypesOf(a)} :
        LET P == people[tr][i]
        IN  (/\ (clock - P.last_alert_time[T]) * 16
                  < DynamicInterval16(P, T, BaseInterval(alert, T), clock)
             /\ ResolvesTo(tr, alert, i))
              => \A random_suppress \in RandomOutcomes(alert, clock) :
                   Outcome(tr, alert, random_suppress).ret = NoAlert

\* C5 witness: an alert was just denied although the camera was free, its type
\* has no global entry and the base interval had passed since the resolved
\* person's last alert of that type: the longer dynamic interval denied it.
C5_Witness ==
  /\ last.op = "filter_alerts" /\ last.ret = NoAlert
  /\ CooldownUntil(camera_alert_history[last.tr], last.tr) = 0
  /\ \E i \in 1..Len(people[last.tr]) : \E T \in TypesOf(last.alert) :
       LET P == people[last.tr][i]
       IN  /\ ResolvesTo(last.tr, last.alert, i)
           /\ TypesOf(last.alert) \cap DOMAIN GLOBAL_SUPPRESSION = {}
           /\ P.last_alert_time[T] > 0
           /\ clock - P.last_alert_time[T] >= BaseInterval(last.alert, T)
           /\ (clock - P.last_alert_time[T]) * 16
                < DynamicInterval16(P, T, BaseInterval(last.alert, T), clock)

InCooldown(tr, cam) == clock < CooldownUntil(camera_alert_history[tr], cam)

\* C6: while a camera's cooldown_until is in the future, filter_alerts returns
\* No_Alert for every alert of that camera.
C6_CameraCooldown ==
  \A tr \in Trackers :
    InCooldown(tr, tr)
      => \A alert \in Alerts(tr) : \A random_suppress \in RandomOutcomes(alert, clock) :
           Outcome(tr, alert, random_suppress).ret = NoAlert

\* C6 witness: an alert was just denied at a time later than the one at which
\* the cooldown was set, and before it ends.
C6_Witness ==
  /\ last.op = "filter_alerts" /\ last.ret = NoAlert
  /\ InCooldown(last.tr, last.tr)
  /\ CooldownUntil(camera_alert_history[last.tr], last.tr)
       < clock + camera_cooldown_period

\* C7: (1) with max_alerts_per_interval alerts allowed for the camera in the
\* current window and no cooldown active, the next attempt is denied and sets
\* cooldown_until = now + camera_cooldown_period; (2) the rate limit starts a
\* cooldown only when max_alerts_per_interval alerts were allowed in the window.
AllowedInWindow(tr, now) ==
  Cardinality({k \in 1..Len(allowed_log) :
                 allowed_log[k].tr = tr /\ (now - allowed_log[k].time) < alert_interval})

C7_CameraBudget ==
  [][FilterStep =>
       LET tr == last'.tr
           before == CooldownUntil(camera_alert_history[tr], tr)
           after == CooldownUntil(camera_alert_history'[tr], tr)
       IN  /\ (clock >= before /\ AllowedInWindow(tr, clock) >= max_alerts_per_interval)
                => (last'.ret = NoAlert /\ after = clock + camera_cooldown_period)
           /\ (after # before)
                => AllowedInWindow(tr, clock) >= max_alerts_per_interval]_vars

\* C8: a filter_alerts call that allows an alert leaves the camera's list as
\* the timestamps still inside the window followed by exactly one new entry,
\* the time of the call.
C8_OneTimestampPerAllowedAlert ==
  [][AllowedStep =>
       LET tr == last'.tr
           before == CameraAlerts(camera_alert_history[tr], tr)
       IN  CameraAlerts(camera_alert_history'[tr], tr)
             = Append(SelectSeq(before, LAMBDA t : (clock - t) < alert_interval),
                      clock)]_vars

\* C9: a filter_alerts call made before cooldown_until leaves the camera's
\* cooldown_until and alert-timestamp list as they were.
C9_CooldownDenialKeepsCameraState ==
  \A tr \in Trackers :
    InCooldown(tr, tr)
      => \A alert \in Alerts(tr) : \A random_suppress \in RandomOutcomes(alert, clock) :
           Outcome(tr, alert, random_suppress).hist = camera_alert_history[tr]

\* C9 witness: an alert was just denied during a cooldown that was set earlier,
\* and the camera's list still holds a timestamp that has left the window.
C9_Witness ==
  /\ last.op = "filter_alerts" /\ last.ret = NoAlert
  /\ InCooldown(last.tr, last.tr)
  /\ CooldownUntil(camera_alert_history[last.tr], last.tr)
       < clock + camera_cooldown_period
  /\ \E k \in 1..Len(CameraAlerts(camera_alert_history[last.tr], last.tr)) :
       clock - CameraAlerts(camera_alert_history[last.tr], last.tr)[k] >= alert_interval

MappedIds(map) == {map[k][2] : k \in 1..Len(map)}

\* C10: for every detection list, update leaves no person with
\* now - last_seen > person_memory in the store, keeps every person with
\* now - last_seen <= person_memory, and binds no detection to an evicted person.
C10_Eviction ==
  \A tr \in Trackers : \A detections \in DetectionLists :
    LET r == update(people[tr], detections, nextId, clock)
    IN  /\ \A i \in 1..Len(r.people) :
             clock - r.people[i].last_seen <= person_memory
        /\ \A i \in 1..Len(people[tr]) :
             IF clock - people[tr][i].last_seen > person_memory
             THEN /\ people[tr][i].id \notin PersonIds(r.people)
                  /\ people[tr][i].id \notin MappedIds(r.map)
             ELSE people[tr][i].id \in PersonIds(r.people)

\* C10 witness: an update has just evicted every person the store held and
\* created a new person for the detection at BoxA instead of matching the
\* evicted person at BoxA.
C10_Witness ==
  /\ last.op = "update" /\ last.tr = "cam1"
  /\ last.detections = <<PersonAt(BoxA), PersonAt(BoxB)>>
  /\ Len(people["cam1"]) = 2
  /\ people["cam1"][1].id > 1
  /\ people["cam1"][1].bbox = BoxA
  /\ \A i \in 1..2 : /\ people["cam1"][i].first_seen = clock
                     /\ people["cam1"][i].frames_tracked = 1
  /\ person_map["cam1"] = <<<<1, people["cam1"][1].id>>, <<2, people["cam1"][2].id>>>>

\* The entries of a mapping for detection index j
EntriesOf(map, j) == {k \in 1..Len(map) : map[k][1] = j}

\* C11: for every detection list on which update returns, the mapping has
\* exactly one entry for each detection of class person (in any spelling) and
\* none for another detection; each entry is bound to a person that was in the
\* store before the call or to one created by the call, and that person is in
\* the store after the call.
C11_AssignmentTotal ==
  \A tr \in Trackers : \A detections \in TrackDetectionLists :
    LET r == UpdateOutcome(tr, detections)
    IN  ~r.raised =>
          /\ \A j \in 1..Len(detections) :
                Cardinality(EntriesOf(r.map, j))
                  = IF Lower(detections[j].class_name) = "person" THEN 1 ELSE 0
          /\ \A k \in 1..Len(r.map) :
                /\ r.map[k][1] \in 1..Len(detections)
                /\ r.map[k][2] \in PersonIds(r.people)
                /\ \/ r.map[k][2] \in PersonIds(people[tr])
                   \/ r.map[k][2] \in nextId..(r.nextId - 1)

\* C11 witness: an update on a non-empty store has just returned a mapping of
\* two entries for its two person detections, one bound to a person that was
\* matched and one bound to a person the call created.
C11_Witness ==
  /\ last.op = "update" /\ last.ret = <<"ok">>
  /\ Len(last.detections) = 2 /\ Len(person_map[last.tr]) = 2
  /\ \E i, n \in 1..Len(people[last.tr]) :
       /\ people[last.tr][i].frames_tracked > 1
       /\ people[last.tr][i].id \in MappedIds(person_map[last.tr])
       /\ people[last.tr][n].frames_tracked = 1
       /\ people[last.tr][n].first_seen = clock
       /\ people[last.tr][n].id \in MappedIds(person_map[last.tr])

\* C12: in the mapping update returns, no two entries are bound to the same
\* person id, and a person that was in the store before the call has been
\* updated at most once by it (frames_tracked grew by at most one).
C12_OneToOne ==
  \A tr \in Trackers : \A detections \in TrackDetectionLists :
    LET r == UpdateOutcome(tr, detections)
    IN  ~r.raised =>
          /\ \A k1, k2 \in 1..Len(r.map) :
                r.map[k1][2] = r.map[k2][2] => k1 = k2
          /\ \A i \in 1..Len(people[tr]) : \A n \in 1..Len(r.people) :
                r.people[n].id = people[tr][i].id
                  => r.people[n].frames_tracked <= people[tr][i].frames_tracked + 1

\* C12 witness: two detections, at BoxA2 and at BoxA, were both close to the
\* tracked person at BoxA; update has matched that person once, to the
\* detection at BoxA, and bound the other detection to a new person.
C12_Witness ==
  /\ last.op = "update" /\ last.ret = <<"ok">>
  /\ last.detections = <<PersonAt(BoxA2), PersonAt(BoxA)>>
  /\ \E i, n \in 1..Len(people[last.tr]) :
       /\ people[last.tr][i].frames_tracked = 2
       /\ people[last.tr][i].bbox = BoxA
       /\ people[last.tr][n].frames_tracked = 1
       /\ people[last.tr][n].bbox = BoxA2
       /\ person_map[last.tr]
            = << <<2, people[last.tr][i].id>>, <<1, people[last.tr][n].id>> >>

\* The person id the mapping binds to detection index j (None when unbound)
BoundTo(map, j) ==
  IF EntriesOf(map, j) = {} THEN None
  ELSE map[CHOOSE k \in EntriesOf(map, j) : TRUE][2]

\* C13: right after an update call, a poses alert whose Image_bb[0] is the box
\* of detection index j is checked and recorded against the person the mapping
\* binds to j: it is denied when that person cannot alert for one of its types,
\* and when it is allowed every type is recorded on that person and on no other.
C13_DirectHit ==
  (last.op = "update" /\ last.ret = <<"ok">>) =>
    \A j \in 1..Len(last.detections) :
      \A alert \in Alerts(last.tr) :
        (/\ alert.Detection_type = "poses"
         /\ alert.Image_bb # << >>
         /\ alert.Image_bb[1] = DetectionBBox(last.detections[j])
         /\ BoundTo(person_map[last.tr], j) # None)
          => \A random_suppress \in RandomOutcomes(alert, clock) :
               LET ps == people[last.tr]
                   i == IndexOfId(ps, BoundTo(person_map[last.tr], j))
                   o == Outcome(last.tr, alert, random_suppress)
               IN  /\ (\E T \in TypesOf(alert) :
                         ~can_alert(ps[i], T, PoseThreshold(alert.type_of_alert, T),
                                    GLOBAL_SUPPRESSION, clock))
                        => o.ret = NoAlert
                   /\ o.ret # NoAlert
                        => /\ \A T \in TypesOf(alert) :
                                /\ o.people[i].last_alert_time[T] = clock
                                /\ o.people[i].alert_count[T] = ps[i].alert_count[T] + 1
                           /\ \A n \in 1..Len(ps) :
                                n # i => AlertFields(o.people)[n] = AlertFields(ps)[n]

\* No tracked person can be resolved for the alert: the mapping has no hit and
\* no tracked person has an IoU above min_iou_threshold with a box of the alert
Unresolved(tr, alert) ==
  /\ DirectMatch(people[tr], person_map[tr]) = None
  /\ \A k \in 1..Len(alert.Image_bb) :
       IouMatch(people[tr], alert.Image_bb[k], 1, None, FZero) = None

\* C14: when a poses or objects alert with a bounding box resolves to no
\* tracked person and is allowed, the store holds a new person afterwards
\* whose bbox is the alert's first box and on which every type of the alert is
\* recorded (last_alert_time = the time of the call, alert_count = 1).
C14_AnonymousPerson ==
  \A tr \in Trackers : \A alert \in Alerts(tr) :
    (/\ alert.Detection_type \in {"poses", "objects"}
     /\ alert.Image_bb # << >>
     /\ Unresolved(tr, alert))
      => \A random_suppress \in RandomOutcomes(alert, clock) :
           LET o == Outcome(tr, alert, random_suppress)
           IN  o.ret # NoAlert
                 => \E n \in 1..Len(o.people) :
                      /\ o.people[n].id \notin PersonIds(people[tr])
                      /\ o.people[n].bbox = alert.Image_bb[1]
                      /\ \A T \in TypesOf(alert) :
                           /\ o.people[n].last_alert_time[T] = clock
                           /\ o.people[n].alert_count[T] = 1

\* C15: an alert with an empty Image_bb (filter_alerts treats a missing one
\* and None the same way) is denied when one of its types is under active
\* global suppression (now - last_alert_time < min_interval), for poses and
\* for objects alerts.
C15_EmptyImageBB ==
  \A tr \in Trackers : \A alert \in Alerts(tr) :
    (/\ alert.Detection_type \in {"poses", "objects"}
     /\ alert.Image_bb = << >>
     /\ \E T \in TypesOf(alert) : GlobalSuppressed(GLOBAL_SUPPRESSION, T, clock))
      => \A random_suppress \in RandomOutcomes(alert, clock) :
           Outcome(tr, alert, random_suppress).ret = NoAlert

\* Person P cannot alert for some type of the alert, at the path's base interval
Ineligible(P, alert) ==
  \E T \in TypesOf(alert) :
    ~can_alert(P, T, BaseInterval(alert, T), GLOBAL_SUPPRESSION, clock)

\* C16: an alert that resolves to tracked person P is allowed only if
\* can_alert holds on P for every one of its types; when it fails for any type
\* the alert is denied and P's last_alert_time and alert_count stay as they
\* were, for poses and for objects alerts.
C16_ConjunctiveEligibility ==
  \A tr \in Trackers : \A i \in 1..Len(people[tr]) :
    \A alert \in {a \in Alerts(tr) : ResolvesTo(tr, a, i)} :
      \A random_suppress \in RandomOutcomes(alert, clock) :
        LET o == Outcome(tr, alert, random_suppress)
        IN  /\ o.ret # NoAlert => ~Ineligible(people[tr][i], alert)
            /\ Ineligible(people[tr][i], alert)
                 => /\ o.ret = NoAlert
                    /\ AlertFields(o.people)[i] = AlertFields(people[tr])[i]

\* C16 witness: an alert of two types has just been denied on a camera that
\* is not in cooldown and has room in its window, because the person it
\* resolves to can alert for one of the types but not for the other; nothing
\* was recorded for the eligible type.
C16_Witness ==
  /\ last.op = "filter_alerts" /\ last.ret = NoAlert
  /\ Cardinality(TypesOf(last.alert)) = 2
  /\ CooldownUntil(camera_alert_history[last.tr], last.tr) = 0
  /\ Len(CameraAlerts(camera_alert_history[last.tr], last.tr)) < max_alerts_per_interval
  /\ \E i \in 1..Len(people[last.tr]) : \E T1, T2 \in TypesOf(last.alert) :
       LET P == people[last.tr][i]
       IN  /\ ResolvesTo(last.tr, last.alert, i)
           /\ can_alert(P, T1, BaseInterval(last.alert, T1), GLOBAL_SUPPRESSION, clock)
           /\ ~can_alert(P, T2, BaseInterval(last.alert, T2), GLOBAL_SUPPRESSION, clock)
           /\ P.last_alert_time[T1] = 0 /\ P.alert_count[T1] = 0

\* C17: update raises for no detection list; with an empty detection list and
\* a store that holds a person that is not stale, it returns an empty mapping
\* and leaves every remaining person as it was.
C17_UpdateNeverRaises ==
  \A tr \in Trackers : \A detections \in TrackDetectionLists :
    LET r == UpdateOutcome(tr, detections)
    IN  /\ ~r.raised
        /\ (detections = << >> /\ EvictStale(people[tr], clock) # << >>)
             => (r.map = << >> /\ r.people = EvictStale(people[tr], clock))

\* C18: a person detection without a bbox is left out of tracking: the mapping
\* update returns has no entry for it, no person is created for it or takes a
\* bbox from it (no person ends at the default box that was not there before),
\* and every person detection of the batch that has a bbox still gets its entry.
C18_MissingBBoxSkipped ==
  \A tr \in Trackers : \A detections \in TrackDetectionLists :
    LET r == UpdateOutcome(tr, detections)
    IN  (~r.raised /\ \E j \in 1..Len(detections) :
                        IsPersonDetection(detections[j]) /\ ~detections[j].has_bbox)
          => /\ \A j \in 1..Len(detections) :
                  Cardinality(EntriesOf(r.map, j))
                    = IF IsPersonDetection(detections[j]) /\ detections[j].has_bbox
                      THEN 1 ELSE 0
             /\ \A n \in 1..Len(r.people) :
                  r.people[n].bbox = DefaultBBox
                    => \E i \in 1..Len(people[tr]) :
                         /\ people[tr][i].id = r.people[n].id
                         /\ people[tr][i] = r.people[n]

\* C19: a person that is in the store before and after an update call and is
\* not a value of the returned mapping is the same record after the call:
\* bbox, confidence, last_seen, frames_tracked, detection_history,
\* movement_score, last_alert_time and alert_count are all unchanged.
C19_UnmatchedUntouched ==
  \A tr \in Trackers : \A detections \in TrackDetectionLists :
    LET r == UpdateOutcome(tr, detections)
    IN  ~r.raised =>
          \A i \in 1..Len(people[tr]) : \A n \in 1..Len(r.people) :
            (/\ r.people[n].id = people[tr][i].id
             /\ people[tr][i].id \notin MappedIds(r.map))
              => r.people[n] = people[tr][i]

\* C19 witness: an update has just matched a tracked person, while another
\* person, seen at an earlier time, is bound to no detection and still carries
\* its earlier last_seen.
C19_Witness ==
  /\ last.op = "update" /\ last.ret = <<"ok">>
  /\ \E i, n \in 1..Len(people[last.tr]) :
       /\ people[last.tr][i].id \notin MappedIds(person_map[last.tr])
       /\ people[last.tr][i].last_seen < clock
       /\ people[last.tr][n].id \in MappedIds(person_map[last.tr])
       /\ people[last.tr][n].frames_tracked > 1
       /\ people[last.tr][n].last_seen = clock

\* C20: after an update call, every person that was in the store before the
\* call and that the mapping binds to detection j has the bbox of detection j,
\* last_seen equal to the time of the call and frames_tracked one greater than
\* before, under the id it had.
C20_MatchedReflectsLatest ==
  \A tr \in Trackers : \A detections \in TrackDetectionLists :
    LET r == UpdateOutcome(tr, detections)
    IN  ~r.raised =>
          \A i \in 1..Len(people[tr]) : \A k \in 1..Len(r.map) :
            r.map[k][2] = people[tr][i].id
              => \E n \in 1..Len(r.people) :
                   /\ r.people[n].id = people[tr][i].id
                   /\ detections[r.map[k][1]].has_bbox
                        => r.people[n].bbox = detections[r.map[k][1]].bbox
                   /\ r.people[n].last_seen = clock
                   /\ r.people[n].frames_tracked = people[tr][i].frames_tracked + 1

\* C20 witness: the person created at [10, 10, 50, 100] has just been matched,
\* at a later time, to the single detection at [12, 11, 52, 101]: same id,
\* bbox [12, 11, 52, 101], last_seen the time of the call, frames_tracked 2.
C20_Witness ==
  /\ last.op = "update" /\ last.ret = <<"ok">>
  /\ last.detections = <<PersonAt(BoxA1)>>
  /\ \E n \in 1..Len(people[last.tr]) :
       /\ person_map[last.tr] = << <<1, people[last.tr][n].id>> >>
       /\ people[last.tr][n].bbox = BoxA1
       /\ people[last.tr][n].first_seen < clock
       /\ people[last.tr][n].last_seen = clock
       /\ people[last.tr][n].frames_tracked = 2
       /\ people[last.tr][n].detection_history = <<<<32, 56, clock>>>>

\* What update(detections) does on the rows and columns of its matrix: the
\* persons left after the sweep, in store order
Kept(tr) == EvictStale(people[tr], clock)

\* The centre of p's bbox is farther than max_distance_threshold from det's
TooFar(p, det) ==
  CenterDistSq(p.bbox, DetectionBBox(det)) > max_distance_threshold * max_distance_threshold

\* C22: update binds no detection to a person that was in the store before
\* the call and whose bbox centre, at the start of the call, is farther than
\* max_distance_threshold from the detection's centre; a person detection that
\* is that far from every person of the store is bound to a new person.
C22_ForbiddenMatches ==
  \A tr \in Trackers : \A detections \in MatchDetectionLists :
    LET r == UpdateOutcome(tr, detections)
    IN  ~r.raised =>
          /\ \A k \in 1..Len(r.map) : \A i \in 1..Len(people[tr]) :
                r.map[k][2] = people[tr][i].id
                  => ~TooFar(people[tr][i], detections[r.map[k][1]])
          /\ \A j \in 1..Len(detections) :
                (/\ IsPersonDetection(detections[j])
                 /\ \A i \in 1..Len(Kept(tr)) : TooFar(Kept(tr)[i], detections[j]))
                  => /\ BoundTo(r.map, j) # None
                     /\ BoundTo(r.map, j) \notin PersonIds(people[tr])

\* C22 witness: the store held one person, at BoxB; update has just bound the
\* detection at BoxD, more than max_distance_threshold away, to a new person
\* and left the person at BoxB unmatched.
C22_Witness ==
  /\ last.op = "update" /\ last.ret = <<"ok">>
  /\ last.detections = <<PersonAt(BoxD)>>
  /\ Len(people[last.tr]) = 2
  /\ people[last.tr][1].bbox = BoxB
  /\ people[last.tr][1].frames_tracked = 1
  /\ TooFar(people[last.tr][1], PersonAt(BoxD))
  /\ people[last.tr][2].bbox = BoxD
  /\ people[last.tr][2].first_seen = clock
  /\ person_map[last.tr] = << <<1, people[last.tr][2].id>> >>

\* C23: update puts no index of a detection of another class than person in
\* the mapping; every person it changed or created is bound in the mapping
\* (hence to a person detection); and a batch made only of detections of other
\* classes returns an empty mapping and leaves the store as the sweep left it.
C23_OtherClassesUntracked ==
  \A tr \in Trackers : \A detections \in MatchDetectionLists :
    LET r == UpdateOutcome(tr, detections)
        none_person == \A j \in 1..Len(detections) :
                         Lower(detections[j].class_name) # "person"
    IN  /\ none_person => ~r.raised
        /\ ~r.raised =>
             /\ \A k \in 1..Len(r.map) :
                  Lower(detections[r.map[k][1]].class_name) = "person"
             /\ \A n \in 1..Len(r.people) :
                  \/ \E i \in 1..Len(people[tr]) : people[tr][i] = r.people[n]
                  \/ r.people[n].id \in MappedIds(r.map)
             /\ none_person
                  => (r.map = << >> /\ r.people = Kept(tr) /\ r.nextId = nextId)

\* C23 witness: update has just been given two detections of class car, one of
\* them on the box of the only tracked person, at a later time than that
\* person was seen; the mapping is empty and the person is as it was.
C23_Witness ==
  /\ last.op = "update" /\ last.ret = <<"ok">>
  /\ last.detections = <<CarAt(BoxA), CarAt(BoxB)>>
  /\ person_map[last.tr] = << >>
  /\ Len(people[last.tr]) = 1
  /\ people[last.tr][1].bbox = BoxB
  /\ people[last.tr][1].last_seen < clock
  /\ people[last.tr][1].frames_tracked = 1
  /\ people[last.tr][1].detection_history = << >>

\* The matches update made, in the order it made them: the entries of the
\* mapping bound to persons that were in the store before the call
MatchesOf(tr, r) == SelectSeq(r.map, LAMBDA e : e[2] \in PersonIds(people[tr]))

\* Row i and column j are still unmatched before the k-th match
Unmatched(tr, matches, k, i, j) ==
  \A q \in 1..(k - 1) :
    matches[q][2] # Kept(tr)[i].id /\ matches[q][1] # j

\* C24: on a non-empty store, each match update makes is a pair whose
\* similarity, in the matrix computed at the start of the call, is not below 0
\* and is the maximum over all pairs of still-unmatched persons and detections;
\* the similarities of successive matches do not increase; and when the
\* matching has stopped every pair still unmatched has a similarity below 0.
C24_GreedyStrongestFirst ==
  \A tr \in Trackers : \A detections \in MatchDetectionLists :
    Kept(tr) # << >> =>
      LET r == UpdateOutcome(tr, detections)
          S == SimilarityMatrix(Kept(tr), detections)
          matches == MatchesOf(tr, r)
          n == Len(Kept(tr))
          m == Len(detections)
          sim(k) == S[IndexOfId(Kept(tr), matches[k][2]), matches[k][1]]
      IN  /\ ~r.raised
          /\ \A k \in 1..Len(matches) :
               /\ ~FLess(sim(k), FZero)
               /\ \A i \in 1..n, j \in 1..m :
                    Unmatched(tr, matches, k, i, j) => FLeq(S[i, j], sim(k))
               /\ k > 1 => FLeq(sim(k), sim(k - 1))
          /\ \A i \in 1..n, j \in 1..m :
               Unmatched(tr, matches, Len(matches) + 1, i, j) => FLess(S[i, j], FZero)

\* C24 witness: the only tracked person, last matched at the centre of BoxA,
\* has just been matched to a detection at BoxD, exactly max_distance_threshold
\* away and without overlap: a similarity of exactly 0.
C24_Witness ==
  /\ last.op = "update" /\ last.ret = <<"ok">>
  /\ last.detections = <<PersonAt(BoxD)>>
  /\ Len(people[last.tr]) = 1
  /\ people[last.tr][1].bbox = BoxD
  /\ people[last.tr][1].frames_tracked = 3
  /\ people[last.tr][1].detection_history
       = << <<CenterX(BoxA), CenterY(BoxA), clock>>, <<CenterX(BoxD), CenterY(BoxD), clock>> >>
  /\ Similarity([people[last.tr][1] EXCEPT !.bbox = BoxA], PersonAt(BoxD)) = FZero
  /\ person_map[last.tr] = << <<1, people[last.tr][1].id>> >>

\* C30: for a store of n >= 1 persons and a list of m >= 1 detections, update
\* returns (its matching loop exits) after at most min(n, m) matches.
C30_MatchingTerminates ==
  \A tr \in Trackers : \A detections \in MatchDetectionLists :
    (Len(Kept(tr)) >= 1 /\ Len(detections) >= 1) =>
      LET r == UpdateOutcome(tr, detections)
      IN  /\ ~r.raised
          /\ Len(MatchesOf(tr, r)) <= Min(Len(Kept(tr)), Len(detections))

\* C30 witness: two tracked persons were both within reach of the single
\* detection at BoxD; update has matched one of them and returned, leaving the
\* person at BoxA, whose similarity with the detection was not below 0,
\* unmatched.
C30_Witness ==
  /\ last.op = "update" /\ last.ret = <<"ok">>
  /\ last.detections = <<PersonAt(BoxD)>>
  /\ Len(people[last.tr]) = 2
  /\ Len(person_map[last.tr]) = 1
  /\ \E i, n \in 1..2 :
       /\ people[last.tr][i].id \in MappedIds(person_map[last.tr])
       /\ people[last.tr][i].bbox = BoxD
       /\ people[last.tr][i].frames_tracked = 2
       /\ people[last.tr][n].id \notin MappedIds(person_map[last.tr])
       /\ people[last.tr][n].bbox = BoxA
       /\ ~FLess(Similarity(people[last.tr][n], PersonAt(BoxD)), FZero)

\* The sample Person.update appends for a detection
SampleOf(det, now) == <<CenterX(det.bbox), CenterY(det.bbox), now>>

\* C26: every person's detection_history holds at most 10 samples, in order of
\* insertion; a person with fewer than 2 samples has movement_score 0; and an
\* update that matches a person appends the sample of the matched detection at
\* the end of that person's history, after dropping the oldest sample when the
\* history already held 10.
C26_SlidingWindow ==
  \A tr \in Trackers :
    /\ \A i \in 1..Len(people[tr]) :
         LET h == people[tr][i].detection_history
         IN  /\ Len(h) <= HistoryCap
             /\ \A k \in 1..(Len(h) - 1) : h[k][3] <= h[k + 1][3]
             /\ Len(h) < 2 => people[tr][i].movement_score = FZero
    /\ \A detections \in HistoryDetectionLists :
         LET r == UpdateOutcome(tr, detections)
         IN  /\ ~r.raised
             /\ \A i \in 1..Len(Kept(tr)) : \A k \in 1..Len(r.map) :
                  r.map[k][2] = Kept(tr)[i].id
                    => LET h == Kept(tr)[i].detection_history
                           s == SampleOf(detections[r.map[k][1]], clock)
                       IN  \E n \in 1..Len(r.people) :
                             /\ r.people[n].id = Kept(tr)[i].id
                             /\ r.people[n].detection_history =
                                  IF Len(h) = HistoryCap THEN Append(Tail(h), s)
                                  ELSE Append(h, s)

\* C26 witness: a person first seen before the clock advanced has since been
\* matched 12 times; its history holds 10 samples, the last one that of the
\* detection at BoxA2 just matched, and the two oldest ones are gone.
C26_Witness ==
  /\ last.op = "update" /\ last.ret = <<"ok">>
  /\ last.detections = <<PersonAt(BoxA2)>>
  /\ \E n \in 1..Len(people[last.tr]) :
       LET p == people[last.tr][n]
       IN  /\ p.first_seen < clock
           /\ p.frames_tracked = HistoryCap + 3
           /\ Len(p.detection_history) = HistoryCap
           /\ p.detection_history[HistoryCap] = <<36, 63, clock>>
           /\ p.detection_history[1] = <<30, 55, clock>>

\* The prior alert counts and movement scores the interval is computed for
MaxAlertCount == 18
MovementScores == {FZero, Frac(MovementThreshold, 1), Frac(2 * MovementThreshold + 1, 2)}

\* base * min(5, 1 + 0.25 * c) * (1.5 | 1) * (1.5 | 1), times 400
RequiredInterval400(base, c, score, now) ==
  base * Min(500, 100 + 25 * c)
       * (IF FLess(Frac(MovementThreshold, 1), score) THEN 3 ELSE 2)
       * (IF 8 <= Hour(now) /\ Hour(now) <= 18 THEN 3 ELSE 2)

\* C25: for a person with c prior alerts of type T, any movement score and any
\* base (alert_interval, or 3 * alert_interval for Hands_Up in a poses alert),
\* outside global suppression can_alert answers yes exactly when the time
\* since the last alert of type T has reached base * min(5, 1 + 0.25 * c) *
\* movement factor * business-hours factor; that interval does not decrease
\* from c to c + 1 and never exceeds 5 * 1.5 * 1.5 * base.
C25_EscalatingInterval ==
  \A tr \in Trackers : \A i \in 1..Len(people[tr]) : \A T \in PersonAlertTypes :
    \A base \in {alert_interval, PoseThreshold(<<T>>, T)} :
      \A c \in 0..MaxAlertCount : \A score \in MovementScores :
        LET req == RequiredInterval400(base, c, score, clock)
            enough == (req + 399) \div 400
            Q(n, since) == [people[tr][i] EXCEPT !.alert_count[T] = n,
                                                 !.movement_score = score,
                                                 !.last_alert_time[T] = clock - since]
            interval16 == DynamicInterval16(Q(c, 0), T, base, clock)
        IN  /\ interval16 * 25 = req
            /\ interval16 <= DynamicInterval16(Q(c + 1, 0), T, base, clock)
            /\ interval16 * 4 <= 5 * 9 * base * 16
            /\ ~GlobalSuppressed(GLOBAL_SUPPRESSION, T, clock)
                 => /\ can_alert(Q(c, enough), T, base, GLOBAL_SUPPRESSION, clock)
                    /\ ~can_alert(Q(c, enough - 1), T, base, GLOBAL_SUPPRESSION, clock)

\* C25 witness: an alert has just been allowed for a person who already had an
\* alert of one of its types on record: the time since that alert had reached
\* the escalated interval, and the person now holds two alerts of that type.
C25_Witness ==
  /\ last.op = "filter_alerts" /\ last.ret # NoAlert
  /\ \E i \in 1..Len(people[last.tr]) : \E T \in TypesOf(last.alert) :
       /\ ResolvesTo(last.tr, last.alert, i)
       /\ people[last.tr][i].alert_count[T] = 2
       /\ people[last.tr][i].last_alert_time[T] = clock

\* C29: filter_alerts called with a falsy value, a value that is not a dict, a
\* dict without type_of_alert or a No_Alert response returns that very value
\* and leaves the persons, the camera alert history (the camera's record is
\* not even created), the global suppression table and the id counter as
\* they were, whatever the random draw.
C29_PassThrough ==
  \A tr \in Trackers : \A alert \in NonAlerts(tr) : \A random_suppress \in BOOLEAN :
    LET o == Outcome(tr, alert, random_suppress)
    IN  /\ o.response = alert
        /\ o.people = people[tr]
        /\ o.hist = camera_alert_history[tr]
        /\ o.glob = GLOBAL_SUPPRESSION
        /\ o.nextId = nextId

\* C29 witness: filter_alerts has just returned a No_Alert response for a
\* camera that tracks persons: the camera still has no alert history record,
\* no person has an alert on record and the global table is as it was
\* initially.
C29_Witness ==
  /\ last.op = "filter_alerts" /\ last.tr = "cam1"
  /\ last.alert = Alert("cam1", NoAlert, "poses", <<BoxA>>)
  /\ last.ret = NoAlert
  /\ people["cam1"] # << >>
  /\ camera_alert_history["cam1"] = << >>
  /\ \A i \in 1..Len(people["cam1"]) : \A T \in PersonAlertTypes :
       people["cam1"][i].alert_count[T] = 0
  /\ \A T \in DOMAIN GLOBAL_SUPPRESSION : GLOBAL_SUPPRESSION[T].count = 0
  /\ allowed_log = << >>

\* The camera_process tasks of camera c that run and have not been stopped
LiveTasks(c) ==
  {t \in 1..Len(tasks) : /\ tasks[t].camera = c
                         /\ tasks[t].pc # "done"
                         /\ ~events[tasks[t].stop_event]}

\* C27: for every camera at most one camera_process task runs that has not
\* been stopped, and stop_events holds the stop event of that task under the
\* camera's id.
C27_OneWorkerPerCamera ==
  \A c \in Trackers :
    /\ Cardinality(LiveTasks(c)) <= 1
    /\ \A t \in LiveTasks(c) :
         c \in DOMAIN stop_events /\ stop_events[c] = tasks[t].stop_event

\* C28: at every filter_alerts call of process_frame the tracker's
\* alert_interval is the alert_interval of the camera's config.
C28_ConfiguredInterval ==
  filter_call.camera # "none" => filter_call.alert_interval = filter_call.configured

\* The tasks that have called update and not yet filter_alerts
Updated == {t \in 1..Len(tasks) : tasks[t].pc = "updated"}

\* C21: while a camera's task is between its update call and its
\* filter_alerts call, the update is the last thing that has happened, and the
\* next thing that happens is that task's filter_alerts call, on the mapping
\* the update returned; the call checks and writes GLOBAL_SUPPRESSION within
\* that one step, on the table it found.
C21_CycleAtomic ==
  /\ [](\A t \in Updated : last.op = "update" /\ last.tr = tasks[t].camera)
  /\ [][\A t \in Updated :
          /\ last'.op = "filter_alerts"
          /\ last'.tr = tasks[t].camera
          /\ last'.alert = tasks[t].response.alert_status
          /\ tasks'[t].pc = "loop"
          /\ person_map' = person_map
          /\ \E random_suppress \in BOOLEAN :
               LET o == Outcome(tasks[t].camera, tasks[t].response.alert_status,
                                random_suppress)
               IN  /\ GLOBAL_SUPPRESSION' = o.glob
                   /\ people' = [people EXCEPT ![tasks[t].camera] = o.people]]_vars

\* C21 witness: the task of one camera has made its update and its
\* filter_alerts call, which let a Weapon alert through and wrote
\* GLOBAL_SUPPRESSION, while the task of another camera was waiting with a
\* frame of its own.
C21_Witness ==
  /\ last.op = "filter_alerts" /\ last.ret = <<"Weapon">>
  /\ filter_call.camera = last.tr
  /\ GLOBAL_SUPPRESSION["Weapon"].count = 1
  /\ \E u \in 1..Len(tasks) :
       tasks[u].camera # last.tr /\ tasks[u].pc = "awaiting"

====
